---------------------------- MODULE Spec2Model ----------------------------
(***************************************************************************)
(* Guard-Railed Support Ticket Copilot: the LangGraph ticket pipeline of   *)
(* ticket_graph.py together with the collaborators it calls                *)
(* (employee_lookup.py, appropriateness_classifier.py, rules_engine.py,    *)
(* support_ticket_rag.py).                                                 *)
(*                                                                         *)
(* Python values are modelled as follows.  A str is a TLA+ string.  An     *)
(* optional value (x | None) is a sequence of length at most one: None is  *)
(* <<>> and the value v is <<v>>.  A dict is a function whose DOMAIN is    *)
(* its key set.  A raised exception is the record [raised |-> name].       *)
(***************************************************************************)
EXTENDS Integers, Sequences, FiniteSets, TLC

\* ------------------------------------------------------------------ bounds
\* Largest number of rows of data/users_roles.csv that is enumerated.
MaxUsers == 2
\* Largest number of rows of data/auth_rules.csv that is enumerated.
MaxRules == 2
\* Largest number of clicks on the process button in one Streamlit session.
MaxSubmissions == 2

\* ------------------------------------------------------- Python primitives
None == <<>>
Some(v) == <<v>>
IsNone(o) == Len(o) = 0
Val(o) == o[1]

\* bool(x) for x : bool | None, as used by `if state.get(k):`.
Truthy(o) == IF IsNone(o) THEN FALSE ELSE Val(o)

\* d.get(k, default) for a dict d.
DictGet(d, k, default) == IF k \in DOMAIN d THEN d[k] ELSE default

EmptyDict == [k \in {} |-> ""]

\* `p in s` for two str.
Contains(s, p) ==
    \E i \in 1..(Len(s) - Len(p) + 1) : SubSeq(s, i, i + Len(p) - 1) = p

\* s.find(p) + 1, or 0 when p does not occur in s.
IndexOf(s, p) ==
    IF Contains(s, p)
    THEN CHOOSE i \in 1..(Len(s) - Len(p) + 1) :
            /\ SubSeq(s, i, i + Len(p) - 1) = p
            /\ \A j \in 1..(i - 1) : SubSeq(s, j, j + Len(p) - 1) # p
    ELSE 0

\* c.lower() for a str c of one character.
LowerMap ==
    [c \in {"A", "B", "C", "D", "E", "F", "G", "H", "I", "J", "K", "L", "M",
            "N", "O", "P", "Q", "R", "S", "T", "U", "V", "W", "X", "Y", "Z"} |->
        CASE c = "A" -> "a" [] c = "B" -> "b" [] c = "C" -> "c" [] c = "D" -> "d"
          [] c = "E" -> "e" [] c = "F" -> "f" [] c = "G" -> "g" [] c = "H" -> "h"
          [] c = "I" -> "i" [] c = "J" -> "j" [] c = "K" -> "k" [] c = "L" -> "l"
          [] c = "M" -> "m" [] c = "N" -> "n" [] c = "O" -> "o" [] c = "P" -> "p"
          [] c = "Q" -> "q" [] c = "R" -> "r" [] c = "S" -> "s" [] c = "T" -> "t"
          [] c = "U" -> "u" [] c = "V" -> "v" [] c = "W" -> "w" [] c = "X" -> "x"
          [] c = "Y" -> "y" [] c = "Z" -> "z"]

LowerChar(c) == IF c \in DOMAIN LowerMap THEN LowerMap[c] ELSE c

\* s.lower()
RECURSIVE Lower(_)
Lower(s) ==
    IF Len(s) = 0 THEN ""
    ELSE LowerChar(SubSeq(s, 1, 1)) \o Lower(SubSeq(s, 2, Len(s)))

IsSpace(c) == c \in {" ", "\n", "\t", "\r"}

\* s.strip()
RECURSIVE Strip(_)
Strip(s) ==
    IF Len(s) = 0 THEN ""
    ELSE IF IsSpace(SubSeq(s, 1, 1)) THEN Strip(SubSeq(s, 2, Len(s)))
    ELSE IF IsSpace(SubSeq(s, Len(s), Len(s))) THEN Strip(SubSeq(s, 1, Len(s) - 1))
    ELSE s

\* set(s.split()): the set of maximal runs of non-whitespace characters.
\* `cur` is the run read so far.
RECURSIVE SplitWords(_, _)
SplitWords(s, cur) ==
    IF Len(s) = 0 THEN (IF cur = "" THEN {} ELSE {cur})
    ELSE IF IsSpace(SubSeq(s, 1, 1))
         THEN (IF cur = "" THEN {} ELSE {cur}) \cup SplitWords(SubSeq(s, 2, Len(s)), "")
         ELSE SplitWords(SubSeq(s, 2, Len(s)), cur \o SubSeq(s, 1, 1))

WordSet(s) == SplitWords(s, "")

\* All sequences over S of length at most n.
RECURSIVE SeqsUpTo(_, _)
SeqsUpTo(S, n) ==
    IF n = 0 THEN {<<>>}
    ELSE LET shorter == SeqsUpTo(S, n - 1)
         IN shorter \cup {Append(q, x) : q \in {r \in shorter : Len(r) = n - 1}, x \in S}

Raised(name) == [raised |-> name]
IsRaised(r) == "raised" \in DOMAIN r

\* --------------------------------------------------- employee_lookup.py
\* Rows that data/users_roles.csv may hold.
UserRows ==
    { [employee_id |-> "E001", role |-> "junior_engineer", department |-> "engineering", seniority |-> "junior"],
      [employee_id |-> "E001", role |-> "manager",         department |-> "finance",     seniority |-> "senior"],
      [employee_id |-> "E002", role |-> "manager",         department |-> "engineering", seniority |-> "senior"],
      [employee_id |-> "E002", role |-> "it_admin",        department |-> "it",          seniority |-> "mid"] }

\* What pd.read_csv('data/users_roles.csv') gives: a table, or the file is missing.
UsersCsv == {[ok |-> TRUE, rows |-> t] : t \in SeqsUpTo(UserRows, MaxUsers)}
            \cup {[ok |-> FALSE, rows |-> <<>>]}

\* lookup_employee(employee_id) reading the csv `csv`.
lookup_employee(csv, employee_id) ==
    IF ~csv.ok THEN Raised("FileNotFoundError")
    ELSE LET IsEmployee(r) == r.employee_id = employee_id
             employee_row == SelectSeq(csv.rows, IsEmployee)
         IN IF Len(employee_row) = 0 THEN [value |-> None]
            ELSE [value |-> Some([k \in {"employee_id", "role", "department", "seniority"}
                                     |-> Head(employee_row)[k]])]

\* ------------------------------------------ appropriateness_classifier.py
\* s.split(sep)[0]
BeforeFirst(s, sep) ==
    IF Contains(s, sep) THEN SubSeq(s, 1, IndexOf(s, sep) - 1) ELSE s

\* sep.join(s.split(sep)[1:]), for s that contains sep
AfterFirst(s, sep) == SubSeq(s, IndexOf(s, sep) + Len(sep), Len(s))

\* s.split(sep)[1], for s that contains sep
SplitSecond(s, sep) == BeforeFirst(AfterFirst(s, sep), sep)

\* The Markdown code fence.  A TLA+ string cannot hold the backquote character,
\* which is written ~ here; no other text of the model holds a ~.
Fence == "~~~"
FenceJson == Fence \o "json"

\* Texts the language model may answer the classification prompt with
\* (response.choices[0].message.content).
ClassifierReplies ==
    { "{\"intent\": \"hardware_issue\", \"appropriateness\": \"appropriate\"}",
      "{\"intent\": \"access_request\", \"appropriateness\": \"not_appropriate\"}",
      "{\"intent\": \"access_request\", \"appropriateness\": \"appropriate\"}",
      " {\"intent\": \"off_scope\", \"appropriateness\": \"appropriate\"}\n",
      FenceJson \o "\n{\"intent\": \"network_issue\", \"appropriateness\": \"appropriate\"}\n" \o Fence,
      Fence \o "\n{\"intent\": \"off_scope\", \"appropriateness\": \"not_appropriate\"}\n" \o Fence,
      "{\"intent\": \"policy_question\"}",
      "{\"appropriateness\": \"appropriate\"}",
      "{\"intent\": \"printer_issue\", \"appropriateness\": \"maybe\"}",
      "[]",
      "\"hardware_issue\"",
      "This is a software issue. It is not appropriate.",
      "INTENT: policy_question",
      FenceJson,
      "" }

\* What the chat completion call of the classifier does: it returns a reply
\* text, returns a message without content, or raises (service unavailable).
ClassifierCompletions ==
    {[ok |-> TRUE, content |-> Some(t)] : t \in ClassifierReplies}
    \cup {[ok |-> TRUE, content |-> None], [ok |-> FALSE, content |-> None]}

\* json.loads(json_str) on the texts that the replies above lead to.
JsonLoads(json_str) ==
    CASE json_str = "{\"intent\": \"hardware_issue\", \"appropriateness\": \"appropriate\"}"
           -> [kind |-> "object", obj |-> [intent |-> "hardware_issue", appropriateness |-> "appropriate"]]
      [] json_str = "{\"intent\": \"access_request\", \"appropriateness\": \"not_appropriate\"}"
           -> [kind |-> "object", obj |-> [intent |-> "access_request", appropriateness |-> "not_appropriate"]]
      [] json_str = "{\"intent\": \"access_request\", \"appropriateness\": \"appropriate\"}"
           -> [kind |-> "object", obj |-> [intent |-> "access_request", appropriateness |-> "appropriate"]]
      [] json_str = "{\"intent\": \"off_scope\", \"appropriateness\": \"appropriate\"}"
           -> [kind |-> "object", obj |-> [intent |-> "off_scope", appropriateness |-> "appropriate"]]
      [] json_str = "{\"intent\": \"network_issue\", \"appropriateness\": \"appropriate\"}"
           -> [kind |-> "object", obj |-> [intent |-> "network_issue", appropriateness |-> "appropriate"]]
      [] json_str = "{\"intent\": \"off_scope\", \"appropriateness\": \"not_appropriate\"}"
           -> [kind |-> "object", obj |-> [intent |-> "off_scope", appropriateness |-> "not_appropriate"]]
      [] json_str = "{\"intent\": \"policy_question\"}"
           -> [kind |-> "object", obj |-> [intent |-> "policy_question"]]
      [] json_str = "{\"appropriateness\": \"appropriate\"}"
           -> [kind |-> "object", obj |-> [appropriateness |-> "appropriate"]]
      [] json_str = "{\"intent\": \"printer_issue\", \"appropriateness\": \"maybe\"}"
           -> [kind |-> "object", obj |-> [intent |-> "printer_issue", appropriateness |-> "maybe"]]
      [] json_str = "[]" -> [kind |-> "array", obj |-> EmptyDict]
      [] json_str = "\"hardware_issue\"" -> [kind |-> "string", obj |-> EmptyDict]
      [] OTHER -> [kind |-> "JSONDecodeError", obj |-> EmptyDict]

\* The `except (json.JSONDecodeError, IndexError, KeyError)` branch: the
\* keyword scan of the reply text.
FallbackParse(result) ==
    LET result_lower == Lower(result)
        intent == IF Contains(result_lower, "hardware") THEN "hardware_issue"
                  ELSE IF Contains(result_lower, "software") THEN "software_issue"
                  ELSE IF Contains(result_lower, "network") THEN "network_issue"
                  ELSE IF Contains(result_lower, "access") THEN "access_request"
                  ELSE IF Contains(result_lower, "policy") THEN "policy_question"
                  ELSE "off_scope"
        appropriateness ==
                  IF Contains(result_lower, "not_appropriate")
                     \/ Contains(result_lower, "not appropriate")
                  THEN "not_appropriate" ELSE "appropriate"
    IN [intent |-> intent, appropriateness |-> appropriateness]

\* The text handed to json.loads: the fenced part of the reply, or all of it.
ExtractJson(result) ==
    IF Contains(result, FenceJson) THEN Strip(BeforeFirst(SplitSecond(result, FenceJson), Fence))
    ELSE IF Contains(result, Fence) THEN Strip(BeforeFirst(SplitSecond(result, Fence), Fence))
    ELSE Strip(result)

\* Mutant of ClassifierClassify: a failed chat completion call gives
\* is_appropriate False.
ClassifierClassify_FailureNotAppropriate(completion) ==
    IF ~completion.ok \/ IsNone(completion.content)
    THEN [intent |-> "off_scope", is_appropriate |-> FALSE]
    ELSE LET result == Strip(Val(completion.content))
             parsed == JsonLoads(ExtractJson(result))
         IN IF parsed.kind = "JSONDecodeError"
            THEN LET f == FallbackParse(result)
                 IN [intent |-> f.intent,
                     is_appropriate |-> (f.appropriateness = "appropriate")]
            ELSE IF parsed.kind # "object"
            THEN Raised("AttributeError")
            ELSE [intent |-> DictGet(parsed.obj, "intent", "ambiguous"),
                  is_appropriate |->
                      (DictGet(parsed.obj, "appropriateness", "appropriate") = "appropriate")]

\* IntentAppropriatenessClassifier.classify_intent_and_appropriateness, given
\* what the chat completion call did.
ClassifierClassify(completion) ==
    IF ~completion.ok \/ IsNone(completion.content)
    THEN \* except Exception: fallback to defaults
         [intent |-> "off_scope", is_appropriate |-> TRUE]
    ELSE LET result == Strip(Val(completion.content))
             parsed == JsonLoads(ExtractJson(result))
         IN IF parsed.kind = "JSONDecodeError"
            THEN LET f == FallbackParse(result)
                 IN [intent |-> f.intent,
                     is_appropriate |-> (f.appropriateness = "appropriate")]
            ELSE IF parsed.kind # "object"
            THEN \* parsed.get on a list or a str
                 Raised("AttributeError")
            ELSE [intent |-> DictGet(parsed.obj, "intent", "ambiguous"),
                  is_appropriate |->
                      (DictGet(parsed.obj, "appropriateness", "appropriate") = "appropriate")]

\* ------------------------------------------------------- rules_engine.py
\* Rows that data/auth_rules.csv may hold (columns intent, role, department,
\* outcome, comment).
RuleRows ==
    { [intent |-> "hardware_issue", role |-> "*", department |-> "*",
       outcome |-> "allowed", comment |-> "All employees can raise hardware issues."],
      [intent |-> "network_issue", role |-> "*", department |-> "*",
       outcome |-> "allowed", comment |-> "All employees can raise network issues."],
      [intent |-> "access_request", role |-> "*", department |-> "*",
       outcome |-> "needs_approval", comment |-> "Access requests need manager approval."],
      [intent |-> "access_request", role |-> "it_admin", department |-> "it",
       outcome |-> "allowed", comment |-> "IT admins may request access."],
      [intent |-> "access_request", role |-> "junior_engineer", department |-> "*",
       outcome |-> "blocked_by_auth", comment |-> "Junior engineers may not request access."],
      [intent |-> "*", role |-> "manager", department |-> "*",
       outcome |-> "allowed", comment |-> "Managers may raise any ticket."],
      [intent |-> "*", role |-> "*", department |-> "*",
       outcome |-> "denied", comment |-> "Default deny."] }

\* What pd.read_csv('data/auth_rules.csv') gives: a table, or the file is missing.
AuthRulesCsv == {[ok |-> TRUE, rows |-> t] : t \in SeqsUpTo(RuleRows, MaxRules)}
                \cup {[ok |-> FALSE, rows |-> <<>>]}

\* The three successive filters of apply_authorization_rules.
ApplicableRules(rows, intent, role, department) ==
    LET IntentOk(r) == r.intent = intent \/ r.intent = "*"
        RoleOk(r) == r.role = role \/ r.role = "*"
        DepartmentOk(r) == r.department = department \/ r.department = "*"
    IN SelectSeq(SelectSeq(SelectSeq(rows, IntentOk), RoleOk), DepartmentOk)

\* Mutant of Specificity: the intent field does not count.
Specificity_IgnoresIntent(r) ==
    (IF r.role # "*" THEN 1 ELSE 0) + (IF r.department # "*" THEN 1 ELSE 0)

\* The 'specificity' column.
Specificity(r) ==
    (IF r.intent # "*" THEN 1 ELSE 0) + (IF r.role # "*" THEN 1 ELSE 0)
    + (IF r.department # "*" THEN 1 ELSE 0)

\* The rows that sort_values(by='specificity', ascending=False) may put first:
\* the sort is pandas' default quicksort, which leaves the order of rows of
\* equal specificity open.
TopRules(applicable) ==
    {applicable[i] : i \in {j \in 1..Len(applicable) :
        \A k \in 1..Len(applicable) : Specificity(applicable[k]) <= Specificity(applicable[j])}}

\* Mutant of apply_authorization_rules: without an applicable rule the
\* request is allowed.
apply_authorization_rules_NoRuleAllowed(csv, intent, role, department) ==
    IF ~csv.ok THEN {Raised("FileNotFoundError")}
    ELSE LET applicable_rules == ApplicableRules(csv.rows, intent, role, department)
         IN IF Len(applicable_rules) # 0
            THEN {[auth_status |-> top_rule.outcome, reason |-> top_rule.comment] :
                     top_rule \in TopRules(applicable_rules)}
            ELSE {[auth_status |-> "allowed",
                   reason |-> "No applicable authorization rule found."]}

\* apply_authorization_rules(intent, role, department) reading the csv `csv`:
\* the set of results it may return.
apply_authorization_rules(csv, intent, role, department) ==
    IF ~csv.ok THEN {Raised("FileNotFoundError")}
    ELSE LET applicable_rules == ApplicableRules(csv.rows, intent, role, department)
         IN IF Len(applicable_rules) # 0
            THEN {[auth_status |-> top_rule.outcome, reason |-> top_rule.comment] :
                     top_rule \in TopRules(applicable_rules)}
            ELSE {[auth_status |-> "blocked_by_auth",
                   reason |-> "No applicable authorization rule found."]}

\* ------------------------------------------------- support_ticket_rag.py
\* The knowledge base of _load_knowledge_base.  Of each article the model keeps
\* the title, set((title + " " + content).lower().split()) as `words`, and the
\* key terms of search_knowledge_base that occur in (title + " " + content).lower()
\* as `key_terms`; both sets are the values the code computes from the article's
\* constant text.
KbVpn ==
    [ title |-> "VPN Connection Problems",
      key_terms |-> {"vpn", "network", "admin"},
      words |-> {
        "'ipconfig", "(openvpn/ikev2)", "(set", "-", "/flushdns'", "1.", "2.", "3.",
        "8.8.4.4)", "8.8.8.8", "adapter", "address", "admin", "all:", "and", "at", "but",
        "cache:", "can't", "cannot", "check", "client", "common", "connect", "connection",
        "connectivity", "connects", "contact", "credentials", "different", "dns", "drops",
        "firewall", "flush", "for", "frequently:", "if", "internal", "internet", "issues",
        "it", "network", "network/location", "persists", "problems", "protocols", "reach",
        "reconnecting", "restart", "server", "settings", "sites:", "software", "solutions:",
        "split", "status", "switch", "to", "try", "tunneling", "update", "verify", "vpn" } ]

KbWifi ==
    [ title |-> "Wi-Fi and Network Connectivity",
      key_terms |-> {"network", "access"},
      words |-> {
        "-", "1.", "2.", "3.", "access", "adapter", "and", "background", "browser", "cache",
        "cannot", "check", "clear", "connection:", "connectivity", "contact", "cookies",
        "devices", "different", "disable", "disconnecting:", "dns", "downloads", "drivers",
        "extensions", "for", "forget", "general", "if", "incognito", "internet", "isp",
        "issue", "keeps", "management", "mode", "network", "on", "or", "persists", "power",
        "reconnect", "reset", "restart", "router/modem", "run", "settings", "slow", "specific",
        "speed", "temporarily", "test", "to", "troubleshooter", "troubleshooting:", "try",
        "update", "websites:", "wi-fi", "windows" } ]

KbKeyboard ==
    [ title |-> "Keyboard and Input Device Issues",
      key_terms |-> {"keyboard"},
      words |-> {
        "-", "1.", "2.", "3.", "activation", "air", "and", "as", "backup", "caps",
        "characters:", "check", "clean", "compressed", "confirmed", "damage", "debris",
        "device", "drivers", "external", "for", "if", "in", "input", "issues", "key",
        "keyboard", "keys", "language", "laptop", "liquid", "mode", "mouse", "not", "off",
        "or", "physical", "remove", "replace", "responding:", "safe", "settings", "steps:",
        "sticky", "stuck", "surface", "test", "touchpad", "trackpad", "troubleshooting", "try",
        "turn", "typing", "underneath", "update", "windows", "with", "working:", "wrong" } ]

KbMonitor ==
    [ title |-> "Monitor and Display Problems",
      key_terms |-> {"monitor"},
      words |-> {
        "-", "1.", "2.", "3.", ">", "adjust", "all", "and", "black", "cable", "cables",
        "check", "connections", "desktop", "detect", "detected:", "device", "different",
        "display", "displays", "drivers", "external", "flickering:", "graphics", "guide:",
        "issues:", "manufacturer", "monitor", "not", "or", "port", "port/hdmi", "power",
        "problems", "rate", "recommended", "refresh", "resolution", "right-click", "scaling",
        "screen", "settings", "test", "to", "troubleshooting", "try", "update", "use",
        "windows+p", "with" } ]

KbOutlook ==
    [ title |-> "Email and Outlook Issues",
      key_terms |-> {"outlook", "email", "folder", "admin"},
      words |-> {
        "'mailbox", "'outlook", "(contact", "-", "/safe'", "1.", "2.", "3.", "account",
        "add-ins", "admin)", "and", "application", "archive", "attachments", "by", "cache",
        "check", "clean", "clear", "connection", "crashing:", "create", "data", "delete",
        "deleted", "disable", "email", "emails", "emails:", "empty", "errors:", "files",
        "folders", "full'", "if", "in", "increase", "installation", "internet", "issues",
        "items", "keeps", "large", "limits", "local", "mailbox", "mode:", "needed", "new",
        "not", "office", "old", "one", "outlook", "profile", "quota", "repair", "restart",
        "safe", "sending/receiving", "settings", "start", "storage", "to", "troubleshooting:",
        "up", "verify" } ]

KbTeams ==
    [ title |-> "Microsoft Teams and Communication",
      key_terms |-> {"teams", "permission", "hr"},
      words |-> {
        "(%appdata%\\microsoft\\teams)", "-", "1.", "2.", "3.", "allowed", "and", "app",
        "application", "as", "audio/video", "authenticator", "back", "backup", "cache",
        "calls/meetings", "camera", "check", "clear", "communication", "completely", "drivers",
        "ensure", "firewall", "for", "in", "is", "issues:", "keeps", "latest", "mfa",
        "microphone", "microsoft", "not", "notification", "notifications", "or", "out",
        "permissions", "preferences", "restart", "review", "service", "settings", "sign",
        "signing", "sync", "teams", "temporarily", "test", "through", "time", "to",
        "troubleshooting:", "try", "update", "use", "version", "web", "windows", "working:" } ]

KbRemoteWork ==
    [ title |-> "Remote Work and WFH Policies",
      key_terms |-> {"vpn", "remote", "access", "security", "approval", "personal"},
      words |-> {
        "-", "1.", "2", "2.", "3", "3.", "4", "6", "9", "access", "after", "align", "am",
        "and", "approval", "as", "attend", "availability", "availability:", "available",
        "calendar", "check-ins", "cloud", "communication", "company", "company-provided",
        "core", "data", "days/week", "devices", "during", "eligibility:", "employment",
        "endpoint", "equipment", "for", "guidelines:", "hours", "hours:", "immediately",
        "incidents", "install", "internal", "keep", "manager", "max", "meetings", "messages",
        "months", "must", "no", "only", "personal", "pm", "policies", "probation:",
        "protection", "remote", "report", "required", "requirements:", "respond", "scheduled",
        "security", "software", "storage", "system", "to", "update", "updated", "use", "via",
        "video", "vpn", "wfh", "with", "within", "work" } ]

KbEquipment ==
    [ title |-> "Equipment Damage and Support",
      key_terms |-> {"policy", "access", "personal"},
      words |-> {
        "$1500", "-", "1.", "2", "2.", "3.", "48", "accessories", "accidental", "and",
        "assessment", "business", "coverage", "coverage:", "covered", "covered/not",
        "covered:", "damage", "damage,", "damaged", "days", "decision", "description",
        "drops,", "during", "equipment", "form", "hours", "if", "incident", "incidents",
        "intentional", "it", "maximum", "may", "needed", "negligence", "normal", "not", "per",
        "personal", "photos", "policy:", "process:", "provide", "repair", "replaced",
        "replacement", "report", "return", "spills,", "submit", "support", "temporary",
        "theft,", "to", "up", "use", "void", "vs", "wear", "what's", "when", "within", "year" } ]

KbNonIt ==
    [ title |-> "Non-IT Related Requests",
      key_terms |-> {"email", "policy", "access", "security", "request", "hr", "finance", "facilities", "personal", "procurement", "benefits", "parking"},
      words |-> {
        "-", "1.", "2.", "3.", "4.", "access", "accounts", "and", "applications:",
        "appropriate", "assistance.", "benefits", "budget", "building", "cannot", "card",
        "conflicts:", "contact", "credit", "department", "device", "directly", "directly.",
        "discuss", "email", "employee", "escalate", "expense", "external", "facilities",
        "finance", "follow", "for", "furniture", "guidance", "home", "hr", "hvac",
        "inquiries:", "internet", "isp", "issues:", "it", "management", "manager",
        "manufacturer", "matters:", "non-it", "non-work", "not", "of", "off", "office",
        "order", "outside", "parking", "payable", "payments:", "performance", "permits:",
        "personal", "personnel", "physical", "please", "policy", "portal", "problems:",
        "process", "procurement", "procurement:", "provide", "purchase", "purchase/support",
        "questions", "questions:", "related", "reports:", "request", "requests", "requests,",
        "requests:", "reviews:", "scope:", "security", "services", "software:", "submit",
        "supervisor", "supplies:", "support", "supported", "team", "the", "these", "through",
        "ticket", "time", "to", "types", "use", "vendor", "with", "workplace", "workspace:",
        "your", "yourself" } ]

KbAccess ==
    [ title |-> "Standard Access Request Process",
      key_terms |-> {"monitor", "network", "email", "access", "database", "folder", "admin", "security", "approval", "request", "hr"},
      words |-> {
        "(include", "-", "1.", "2-3", "2.", "3.", "4.", "5.", "access", "access:",
        "additional", "admin", "administrative", "all", "allow", "and", "appeals",
        "application", "applied", "approval", "audit", "available", "be", "business",
        "c-level", "changes", "check", "clearance", "company", "complete", "compliance",
        "conducted", "contact", "data", "database", "days", "denied", "department", "director",
        "documentation", "drive", "elevated", "email", "exact", "first", "folder", "follow",
        "for", "form", "guidelines:", "handling", "head", "if", "in", "include", "it",
        "justification", "maintained", "manager", "mandatory", "may", "monitoring",
        "multi-level", "must", "needed", "needs", "network", "note:", "notifications",
        "number)", "of", "only", "or", "path", "policies", "portal", "possible", "procedures",
        "process", "processing", "provide", "purposes", "quarterly", "reason", "regular",
        "removal", "request", "requests", "required", "requirements.", "requires", "review",
        "reviews", "revocation", "role", "security", "sensitive", "sent", "shared", "special",
        "specify", "standard", "status", "status:", "submit", "system", "temporary", "through",
        "ticket", "trails", "training", "updates", "urgent", "when" } ]

\* self.knowledge_base: intent -> list of articles.
knowledge_base ==
    [ network_issue |-> <<KbVpn, KbWifi>>,
      hardware_issue |-> <<KbKeyboard, KbMonitor>>,
      software_issue |-> <<KbOutlook, KbTeams>>,
      policy_question |-> <<KbRemoteWork, KbEquipment>>,
      off_scope |-> <<KbNonIt>>,
      access_request |-> <<KbAccess>> ]

\* key_terms of search_knowledge_base.
key_terms ==
    {
      "vpn", "outlook", "teams", "keyboard", "monitor", "wifi", "network", "email", "policy",
      "remote", "hardware", "access", "permission", "database", "folder", "admin", "security",
      "approval", "request", "hr", "finance", "facilities", "personal", "procurement",
      "benefits", "parking" }


\* A relevance score: the float overlap_score + key_boost, kept as the exact
\* fraction num / den.
Score(num, den) == [num |-> num, den |-> den]
ScoreAtLeast(score, tnum, tden) == score.num * tden >= tnum * score.den
ScoreGreater(a, b) == a.num * b.den > b.num * a.den

\* final_score of one article for a ticket.
ArticleScore(article, ticket_lower, ticket_words) ==
    LET common_words == ticket_words \cap article.words
        n == Cardinality(ticket_words)
        key_matches == Cardinality({term \in key_terms :
                          Contains(ticket_lower, term) /\ term \in article.key_terms})
    IN IF n > 0 THEN Score(10 * Cardinality(common_words) + key_matches * n, 10 * n)
       ELSE Score(key_matches, 10)

\* The loop of search_knowledge_base over the articles of one intent; `best`
\* is (best_match, best_score) so far.  best_match is "**title**\n\ncontent";
\* the model keeps "**title**" (no code reads the content of the context).
RECURSIVE SearchArticles(_, _, _, _)
SearchArticles(articles, ticket_lower, ticket_words, best) ==
    IF Len(articles) = 0 THEN best
    ELSE LET final_score == ArticleScore(Head(articles), ticket_lower, ticket_words)
             next == IF ScoreGreater(final_score, best.score)
                     THEN [context |-> "**" \o Head(articles).title \o "**",
                           score |-> final_score]
                     ELSE best
         IN SearchArticles(Tail(articles), ticket_lower, ticket_words, next)

\* SupportTicketRAG.search_knowledge_base(ticket_text, intent)
search_knowledge_base(ticket_text, intent) ==
    IF intent \notin DOMAIN knowledge_base THEN [context |-> "", score |-> Score(0, 1)]
    ELSE LET ticket_lower == Lower(ticket_text)
         IN SearchArticles(knowledge_base[intent], ticket_lower, WordSet(ticket_lower),
                           [context |-> "", score |-> Score(0, 1)])

\* Texts the language model may answer the solution prompt with.
SolutionReplies ==
    { "Flush the DNS cache, restart the network adapter and reconnect the VPN.",
      "  Clean the keyboard with compressed air and test an external keyboard.\n",
      "Replace the keyboard.",
      "I don't have enough information in the knowledge base to answer this.",
      "The knowledge base is INSUFFICIENT for this question, contact IT support.",
      "12345678901234567890123456789012345678901234567890",
      "123456789012345678901234567890123456789012345678901",
      "" }

\* str(e) of exceptions that the chat completion call may raise.
SolutionErrors ==
    { "Connection error.",
      "Error code: 401 - Access denied." }

\* What the chat completion call of generate_solution does: it returns a reply
\* text, returns a message without content, or raises (content is then str(e)).
SolutionCompletions ==
    {[ok |-> TRUE, content |-> Some(t)] : t \in SolutionReplies}
    \cup {[ok |-> TRUE, content |-> None]}
    \cup {[ok |-> FALSE, content |-> Some(e)] : e \in SolutionErrors}

\* SupportTicketRAG.generate_solution, given what the chat completion call did.
generate_solution(completion) ==
    IF ~completion.ok
    THEN "Error generating solution: " \o Val(completion.content)
    ELSE IF IsNone(completion.content)
    THEN "Error generating solution: 'NoneType' object has no attribute 'strip'"
    ELSE Strip(Val(completion.content))

\* Mutant of FailurePhrases: "error generating" is not among the phrases.
FailurePhrases_NoErrorGenerating ==
    {"don't have", "cannot answer", "insufficient", "not enough information"}

\* The phrases that mark a solution as not meaningful.
FailurePhrases ==
    {"don't have", "cannot answer", "insufficient", "error generating", "not enough information"}

\* str(n) for a natural number n.
RECURSIVE IntToStr(_)
IntToStr(n) ==
    IF n < 10 THEN SubSeq("0123456789", n + 1, n + 1)
    ELSE IntToStr(n \div 10) \o SubSeq("0123456789", (n % 10) + 1, (n % 10) + 1)

\* f"{score:.3f}": the score rounded to thousandths, ties to even.  (For a
\* ticket of fewer than 16 distinct words the float and the exact fraction
\* round alike.)
Format3(score) ==
    LET q == (score.num * 1000) \div score.den
        r == (score.num * 1000) % score.den
        t == IF 2 * r > score.den \/ (2 * r = score.den /\ q % 2 = 1) THEN q + 1 ELSE q
        frac == t % 1000
    IN IntToStr(t \div 1000) \o "."
       \o (IF frac < 10 THEN "00" ELSE IF frac < 100 THEN "0" ELSE "") \o IntToStr(frac)

RagResult(status, message, employee_id, intent, kb_relevance, debug_info) ==
    [status |-> status, message |-> message, employee_id |-> employee_id,
     intent |-> intent, kb_relevance |-> kb_relevance, debug_info |-> debug_info]

\* Mutant of SolutionIsMeaningful: the length test is missing.
SolutionIsMeaningful_NoLengthTest(solution) ==
    ~\E phrase \in FailurePhrases : Contains(Lower(solution), phrase)

\* Mutant of SolutionIsMeaningful: the length comparison is turned round.
SolutionIsMeaningful_LengthAtMost50(solution) ==
    /\ Len(solution) <= 50
    /\ ~\E phrase \in FailurePhrases : Contains(Lower(solution), phrase)

\* Mutant of SolutionIsMeaningful: the phrases are looked for in the solution
\* as generated, not in its lower-case form.
SolutionIsMeaningful_CaseSensitive(solution) ==
    /\ Len(solution) > 50
    /\ ~\E phrase \in FailurePhrases : Contains(solution, phrase)

\* The test of process_allowed_ticket that a generated solution is meaningful.
SolutionIsMeaningful(solution) ==
    /\ Len(solution) > 50
    /\ ~\E phrase \in FailurePhrases : Contains(Lower(solution), phrase)

\* Mutant of process_allowed_ticket: access requests get the standard processing.
process_allowed_ticket_NoAccessBranch(employee_id, ticket_text, intent, completion) ==
    LET found == search_knowledge_base(ticket_text, intent)
        context == found.context
        relevance_score == found.score
    IN IF intent = "off_scope"
       THEN IF context # ""
            THEN RagResult("escalate",
                     "This request is outside IT support scope. " \o generate_solution(completion),
                     employee_id, intent, relevance_score,
                     "Off-scope request - provided guidance but escalated")
            ELSE RagResult("escalate",
                     "This request appears to be outside IT support scope. Please contact the appropriate department for assistance.",
                     employee_id, intent, Score(0, 1),
                     "Off-scope request - no KB context found")
       ELSE IF /\ ScoreAtLeast(relevance_score, 1, 4)
               /\ context # ""
               /\ SolutionIsMeaningful(generate_solution(completion))
       THEN RagResult("solved_by_rag", generate_solution(completion),
                employee_id, intent, relevance_score,
                "KB match found with score " \o Format3(relevance_score))
       ELSE RagResult("escalate",
                "This issue requires human attention. Your ticket has been escalated to our IT support team who will contact you within 4 business hours.",
                employee_id, intent, relevance_score,
                "KB context insufficient (score: " \o Format3(relevance_score)
                    \o ") or solution quality poor")

\* SupportTicketRAG.process_allowed_ticket(employee_id, ticket_text, intent),
\* given what the chat completion call of generate_solution does if it is made.
process_allowed_ticket(employee_id, ticket_text, intent, completion) ==
    LET found == search_knowledge_base(ticket_text, intent)
        context == found.context
        relevance_score == found.score
    IN IF intent = "off_scope"
       THEN IF context # ""
            THEN RagResult("escalate",
                     "This request is outside IT support scope. " \o generate_solution(completion),
                     employee_id, intent, relevance_score,
                     "Off-scope request - provided guidance but escalated")
            ELSE RagResult("escalate",
                     "This request appears to be outside IT support scope. Please contact the appropriate department for assistance.",
                     employee_id, intent, Score(0, 1),
                     "Off-scope request - no KB context found")
       ELSE IF intent = "access_request"
       THEN IF ScoreAtLeast(relevance_score, 1, 5) /\ context # ""
            THEN RagResult("escalate",
                     "For access requests, please follow the standard process: "
                        \o generate_solution(completion)
                        \o " Your request will be reviewed according to company security policies.",
                     employee_id, intent, relevance_score,
                     "Access request - provided process guidance but escalated for manual processing")
            ELSE RagResult("escalate",
                     "Please submit your access request through the IT portal with business justification and manager approval. Allow 2-3 business days for processing.",
                     employee_id, intent, relevance_score,
                     "Access request - standard escalation message")
       ELSE IF /\ ScoreAtLeast(relevance_score, 1, 4)
               /\ context # ""
               /\ SolutionIsMeaningful(generate_solution(completion))
       THEN RagResult("solved_by_rag", generate_solution(completion),
                employee_id, intent, relevance_score,
                "KB match found with score " \o Format3(relevance_score))
       ELSE RagResult("escalate",
                "This issue requires human attention. Your ticket has been escalated to our IT support team who will contact you within 4 business hours.",
                employee_id, intent, relevance_score,
                "KB context insufficient (score: " \o Format3(relevance_score)
                    \o ") or solution quality poor")

\* ------------------------------------------------------- ticket_graph.py
\* Arguments that process_ticket is called with.
TicketIds == {"T-1"}
EmployeeIds == {"E001", "E002", "E404"}
Subjects == {"VPN problem", "Access request", ""}
Bodies == {"VPN connects but cannot reach internal sites",
           "I need access to the finance database",
           "Keyboard keys stuck",
           ""}

VARIABLES
    args,            \* the arguments of the process_ticket call
    state,           \* the TicketState that the graph threads through the nodes
    pc,              \* the node that runs next, END, or "failed" once a node raised
    error,           \* the exception that left process_ticket, if any
    trace,           \* the nodes executed so far, in order
    returned,        \* what each collaborator returned to this run, None if not called
    calls,           \* how often each collaborator was called
    outcome_writes,  \* how many node updates wrote the key "outcome"
    previous,        \* the finished earlier process_ticket call of this process, if any
    others,          \* the process_ticket calls that run concurrently with this one
    shared_writes,   \* the attributes of _rag_system and _classifier written since import
    cli,             \* the command-line client: where main() is and what it has read and shown
    copilot,         \* the Streamlit GuardRailedSupportCopilot and its process_ticket call
    session          \* st.session_state of the Streamlit page: the two counters

vars == <<args, state, pc, error, trace, returned, calls, outcome_writes, previous,
          others, shared_writes, cli, copilot, session>>

START == "__start__"
END == "__end__"
FAILED == "failed"

StageNodes == {"lookup_employee_profile", "classify_intent_and_appropriateness",
               "check_authorization", "rag_and_llm_answering"}
TerminalNodes == {"return_blocked_by_appropriateness", "return_blocked_by_auth",
                  "return_needs_approval", "return_solved_by_rag", "return_escalate"}
Nodes == StageNodes \cup TerminalNodes

Collaborators == {"lookup_employee", "classify_intent_and_appropriateness",
                  "apply_authorization_rules", "process_allowed_ticket"}

\* The keys of TicketState that hold the request, and those the nodes fill in.
InputFields == {"employee_id", "subject", "body"}
OutputFields == {"employee_profile", "is_appropriate", "intent", "auth_decision",
                 "auth_reason", "rag_context", "rag_answer", "has_good_context",
                 "outcome", "response"}

\* Mutant of InitialState: has_good_context starts as False.
InitialState_GoodContextFalse(a) ==
    [employee_id |-> a.employee_id, subject |-> a.subject, body |-> a.body,
     employee_profile |-> None, is_appropriate |-> None, intent |-> None,
     auth_decision |-> None, auth_reason |-> None, rag_context |-> None,
     rag_answer |-> None, has_good_context |-> Some(FALSE), outcome |-> None,
     response |-> None]

\* initial_state of process_ticket.  (The key "ticket_id" is no key of the
\* TicketState schema and no node reads it; it stays in args.)
InitialState(a) ==
    [employee_id |-> a.employee_id, subject |-> a.subject, body |-> a.body,
     employee_profile |-> None, is_appropriate |-> None, intent |-> None,
     auth_decision |-> None, auth_reason |-> None, rag_context |-> None,
     rag_answer |-> None, has_good_context |-> None, outcome |-> None,
     response |-> None]

\* The graph applies a node's update: the returned keys replace the state's.
Merge(st, update) ==
    [k \in DOMAIN st |-> IF k \in DOMAIN update THEN update[k] ELSE st[k]]

\* f"{subject}\n{body}"
TicketText(st) == st.subject \o "\n" \o st.body

\* ---- node functions: the update each node returns, or the exception it
\* raises, given what its collaborator does.

\* Mutant of lookup_employee_profile: the update also replaces employee_id by
\* the id of the row found.
lookup_employee_profile_OverwritesId(st, looked_up) ==
    IF IsRaised(looked_up) THEN looked_up
    ELSE LET profile == IF IsNone(looked_up.value) THEN EmptyDict ELSE Val(looked_up.value)
         IN [employee_profile |-> Some(profile),
             employee_id |-> DictGet(profile, "employee_id", "")]

\* lookup_employee_profile(state), with lookup_employee's result `looked_up`.
lookup_employee_profile(st, looked_up) ==
    IF IsRaised(looked_up) THEN looked_up
    ELSE [employee_profile |->
             Some(IF IsNone(looked_up.value) THEN EmptyDict ELSE Val(looked_up.value))]

\* classify_intent_and_appropriateness(state), with the classifier's `result`.
classify_intent_and_appropriateness(st, result) ==
    IF IsRaised(result) THEN result
    ELSE [is_appropriate |-> Some(result.is_appropriate),
          intent |-> Some(result.intent)]

\* Mutant of AuthorizationArgs: a profile without role and department is
\* given the role manager.
AuthorizationArgs_DefaultManager(st) ==
    [intent |-> Val(st.intent),
     role |-> DictGet(Val(st.employee_profile), "role", "manager"),
     department |-> DictGet(Val(st.employee_profile), "department", "")]

\* The arguments check_authorization passes to apply_authorization_rules.
AuthorizationArgs(st) ==
    [intent |-> Val(st.intent),
     role |-> DictGet(Val(st.employee_profile), "role", ""),
     department |-> DictGet(Val(st.employee_profile), "department", "")]

\* check_authorization(state), with apply_authorization_rules' `result`.
check_authorization(st, result) ==
    IF IsRaised(result) THEN result
    ELSE [auth_decision |-> Some(result.auth_status),
          auth_reason |-> Some(result.reason)]

\* Mutant of rag_and_llm_answering: every result with a message counts as
\* good context.
rag_and_llm_answering_AnyMessageIsGood(st, result) ==
    LET has_good_context == DictGet(result, "message", "") # ""
    IN [rag_context |-> Some(DictGet(result, "debug_info", "")),
        rag_answer |-> Some(DictGet(result, "message", "")),
        has_good_context |-> Some(has_good_context)]

\* rag_and_llm_answering(state), with process_allowed_ticket's `result`.
rag_and_llm_answering(st, result) ==
    LET has_good_context == result.status = "solved_by_rag"
    IN [rag_context |-> Some(DictGet(result, "debug_info", "")),
        rag_answer |-> Some(DictGet(result, "message", "")),
        has_good_context |-> Some(has_good_context)]

return_blocked_by_appropriateness(st) ==
    [outcome |-> Some("blocked_by_appropriateness"),
     response |-> Some("Your request cannot be processed as it is not appropriate for this support channel.")]

\* Mutant of return_blocked_by_auth: the response is the authorization reason.
return_blocked_by_auth_GivesReason(st) ==
    [outcome |-> Some("blocked_by_auth"),
     response |-> st.auth_reason]

return_blocked_by_auth(st) ==
    [outcome |-> Some("blocked_by_auth"),
     response |-> Some("You are not authorized to perform this action.")]

return_needs_approval(st) ==
    [outcome |-> Some("needs_approval"),
     response |-> Some("Your request requires manager approval before it can be processed.")]

\* Mutant of return_solved_by_rag: a fixed text instead of the answer.
return_solved_by_rag_FixedText(st) ==
    [outcome |-> Some("solved_by_rag"),
     response |-> Some("Your request has been resolved from the knowledge base.")]

\* state.get("rag_answer", ""): the key is always present, so its value is read.
return_solved_by_rag(st) ==
    [outcome |-> Some("solved_by_rag"),
     response |-> st.rag_answer]

return_escalate(st) ==
    [outcome |-> Some("escalate"),
     response |-> Some("Your request has been escalated to a human support agent.")]

\* ---- conditional edge functions

\* Mutant of route_after_appropriateness: tests `is not None` instead of truth.
route_after_appropriateness_IsNotNone(st) ==
    IF ~IsNone(st.is_appropriate) THEN "appropriate" ELSE "not_appropriate"

route_after_appropriateness(st) ==
    IF Truthy(st.is_appropriate) THEN "appropriate" ELSE "not_appropriate"

\* Mutant of route_after_authorization: needs_approval is routed as allowed.
route_after_authorization_ApprovalAllowed(st) ==
    LET auth_decision == st.auth_decision
    IN IF auth_decision = Some("allowed") \/ auth_decision = Some("needs_approval")
       THEN "allowed"
       ELSE "blocked_by_auth"

\* Mutant of route_after_authorization: the final return gives "allowed".
route_after_authorization_ElseAllowed(st) ==
    LET auth_decision == st.auth_decision
    IN IF auth_decision = Some("allowed") THEN "allowed"
       ELSE IF auth_decision = Some("needs_approval") THEN "needs_approval"
       ELSE "allowed"

\* Mutant of route_after_authorization: only the value blocked_by_auth is
\* blocked, every other value that is not needs_approval goes on to Resolve.
route_after_authorization_OnlyBlockedIsBlocked(st) ==
    LET auth_decision == st.auth_decision
    IN IF auth_decision = Some("blocked_by_auth") THEN "blocked_by_auth"
       ELSE IF auth_decision = Some("needs_approval") THEN "needs_approval"
       ELSE "allowed"

\* state.get("auth_decision", "blocked_by_auth"): the key is always present.
route_after_authorization(st) ==
    LET auth_decision == st.auth_decision
    IN IF auth_decision = Some("allowed") THEN "allowed"
       ELSE IF auth_decision = Some("needs_approval") THEN "needs_approval"
       ELSE "blocked_by_auth"

\* Mutant of route_after_rag: tests `is not None` instead of truth.
route_after_rag_IsNotNone(st) ==
    IF ~IsNone(st.has_good_context) THEN "answerable" ELSE "no_good_context"

route_after_rag(st) ==
    IF Truthy(st.has_good_context) THEN "answerable" ELSE "no_good_context"

\* Mutant of Successor: without good context the Resolve stage is run again.
Successor_RetriesRag(node, st) ==
    CASE node = START -> "lookup_employee_profile"
      [] node = "lookup_employee_profile" -> "classify_intent_and_appropriateness"
      [] node = "classify_intent_and_appropriateness" ->
            [appropriate |-> "check_authorization",
             not_appropriate |-> "return_blocked_by_appropriateness"]
                [route_after_appropriateness(st)]
      [] node = "check_authorization" ->
            [allowed |-> "rag_and_llm_answering",
             blocked_by_auth |-> "return_blocked_by_auth",
             needs_approval |-> "return_needs_approval"]
                [route_after_authorization(st)]
      [] node = "rag_and_llm_answering" ->
            [answerable |-> "return_solved_by_rag",
             no_good_context |-> "rag_and_llm_answering"]
                [route_after_rag(st)]
      [] node \in TerminalNodes -> END

\* Mutant of Successor: return_needs_approval has an edge to return_escalate
\* instead of END.
Successor_ApprovalFallsThrough(node, st) ==
    CASE node = START -> "lookup_employee_profile"
      [] node = "lookup_employee_profile" -> "classify_intent_and_appropriateness"
      [] node = "classify_intent_and_appropriateness" ->
            [appropriate |-> "check_authorization",
             not_appropriate |-> "return_blocked_by_appropriateness"]
                [route_after_appropriateness(st)]
      [] node = "check_authorization" ->
            [allowed |-> "rag_and_llm_answering",
             blocked_by_auth |-> "return_blocked_by_auth",
             needs_approval |-> "return_needs_approval"]
                [route_after_authorization(st)]
      [] node = "rag_and_llm_answering" ->
            [answerable |-> "return_solved_by_rag",
             no_good_context |-> "return_escalate"]
                [route_after_rag(st)]
      [] node = "return_needs_approval" -> "return_escalate"
      [] node \in TerminalNodes \ {"return_needs_approval"} -> END

\* Mutant of Successor: a conditional edge after lookup_employee_profile sends
\* a ticket with an empty profile to return_blocked_by_auth.
Successor_BranchesOnLookup(node, st) ==
    CASE node = START -> "lookup_employee_profile"
      [] node = "lookup_employee_profile" ->
            IF st.employee_profile = Some(EmptyDict) THEN "return_blocked_by_auth"
            ELSE "classify_intent_and_appropriateness"
      [] node = "classify_intent_and_appropriateness" ->
            [appropriate |-> "check_authorization",
             not_appropriate |-> "return_blocked_by_appropriateness"]
                [route_after_appropriateness(st)]
      [] node = "check_authorization" ->
            [allowed |-> "rag_and_llm_answering",
             blocked_by_auth |-> "return_blocked_by_auth",
             needs_approval |-> "return_needs_approval"]
                [route_after_authorization(st)]
      [] node = "rag_and_llm_answering" ->
            [answerable |-> "return_solved_by_rag",
             no_good_context |-> "return_escalate"]
                [route_after_rag(st)]
      [] node \in TerminalNodes -> END

\* ---- build_ticket_graph: the node that follows `node` once its update is
\* merged into `st`.
Successor(node, st) ==
    CASE node = START -> "lookup_employee_profile"
      [] node = "lookup_employee_profile" -> "classify_intent_and_appropriateness"
      [] node = "classify_intent_and_appropriateness" ->
            [appropriate |-> "check_authorization",
             not_appropriate |-> "return_blocked_by_appropriateness"]
                [route_after_appropriateness(st)]
      [] node = "check_authorization" ->
            [allowed |-> "rag_and_llm_answering",
             blocked_by_auth |-> "return_blocked_by_auth",
             needs_approval |-> "return_needs_approval"]
                [route_after_authorization(st)]
      [] node = "rag_and_llm_answering" ->
            [answerable |-> "return_solved_by_rag",
             no_good_context |-> "return_escalate"]
                [route_after_rag(st)]
      [] node \in TerminalNodes -> END

\* ---- process_ticket: app.invoke(initial_state)

Init ==
    /\ args \in [ticket_id : TicketIds, employee_id : EmployeeIds,
                 subject : Subjects, body : Bodies]
    /\ state = InitialState(args)
    /\ pc = Successor(START, state)
    /\ error = None
    /\ trace = <<>>
    /\ returned = [c \in Collaborators |-> None]
    /\ calls = [c \in Collaborators |-> 0]
    /\ outcome_writes = 0
    /\ previous = None
    /\ others = <<>>
    /\ shared_writes = {}
    /\ cli = None
    /\ copilot = None
    /\ session = None

\* Mutant of RunNode: an exception in a node is swallowed and the run goes on
\* to return_escalate.
RunNode_RaiseEscalates(node, update) ==
    /\ trace' = Append(trace, node)
    /\ IF IsRaised(update)
       THEN /\ pc' = "return_escalate"
            /\ UNCHANGED <<state, outcome_writes, error>>
       ELSE /\ state' = Merge(state, update)
            /\ pc' = Successor(node, state')
            /\ outcome_writes' = outcome_writes + (IF "outcome" \in DOMAIN update THEN 1 ELSE 0)
            /\ UNCHANGED error
    /\ UNCHANGED <<args, previous, others, shared_writes, cli, copilot, session>>

\* One step of the graph: node `node` ran and returned `update` (or raised).
RunNode(node, update) ==
    /\ trace' = Append(trace, node)
    /\ IF IsRaised(update)
       THEN /\ pc' = FAILED
            /\ error' = Some(update.raised)
            /\ UNCHANGED <<state, outcome_writes>>
       ELSE /\ state' = Merge(state, update)
            /\ pc' = Successor(node, state')
            /\ outcome_writes' = outcome_writes + (IF "outcome" \in DOMAIN update THEN 1 ELSE 0)
            /\ UNCHANGED error
    /\ UNCHANGED <<args, previous, others, shared_writes, cli, copilot, session>>

\* Node `node` called collaborator `c`, which answered `result`.
Called(c, result) ==
    /\ returned' = [returned EXCEPT ![c] = Some(result)]
    /\ calls' = [calls EXCEPT ![c] = @ + 1]

LookupEmployeeProfile ==
    /\ pc = "lookup_employee_profile"
    /\ \E csv \in UsersCsv :
          LET looked_up == lookup_employee(csv, state.employee_id)
          IN /\ Called("lookup_employee", looked_up)
             /\ RunNode("lookup_employee_profile", lookup_employee_profile(state, looked_up))

ClassifyIntentAndAppropriateness ==
    /\ pc = "classify_intent_and_appropriateness"
    /\ \E completion \in ClassifierCompletions :
          LET result == ClassifierClassify(completion)
          IN /\ Called("classify_intent_and_appropriateness", result)
             /\ RunNode("classify_intent_and_appropriateness",
                        classify_intent_and_appropriateness(state, result))

CheckAuthorization ==
    /\ pc = "check_authorization"
    /\ \E csv \in AuthRulesCsv :
          LET a == AuthorizationArgs(state)
          IN \E result \in apply_authorization_rules(csv, a.intent, a.role, a.department) :
                /\ Called("apply_authorization_rules", result)
                /\ RunNode("check_authorization", check_authorization(state, result))

RagAndLlmAnswering ==
    /\ pc = "rag_and_llm_answering"
    /\ \E completion \in SolutionCompletions :
          LET result == process_allowed_ticket(state.employee_id, TicketText(state),
                                               Val(state.intent), completion)
          IN /\ Called("process_allowed_ticket", result)
             /\ RunNode("rag_and_llm_answering", rag_and_llm_answering(state, result))

ReturnBlockedByAppropriateness ==
    /\ pc = "return_blocked_by_appropriateness"
    /\ RunNode("return_blocked_by_appropriateness", return_blocked_by_appropriateness(state))
    /\ UNCHANGED <<returned, calls>>

ReturnBlockedByAuth ==
    /\ pc = "return_blocked_by_auth"
    /\ RunNode("return_blocked_by_auth", return_blocked_by_auth(state))
    /\ UNCHANGED <<returned, calls>>

ReturnNeedsApproval ==
    /\ pc = "return_needs_approval"
    /\ RunNode("return_needs_approval", return_needs_approval(state))
    /\ UNCHANGED <<returned, calls>>

ReturnSolvedByRag ==
    /\ pc = "return_solved_by_rag"
    /\ RunNode("return_solved_by_rag", return_solved_by_rag(state))
    /\ UNCHANGED <<returned, calls>>

ReturnEscalate ==
    /\ pc = "return_escalate"
    /\ RunNode("return_escalate", return_escalate(state))
    /\ UNCHANGED <<returned, calls>>

Next ==
    \/ LookupEmployeeProfile
    \/ ClassifyIntentAndAppropriateness
    \/ CheckAuthorization
    \/ RagAndLlmAnswering
    \/ ReturnBlockedByAppropriateness
    \/ ReturnBlockedByAuth
    \/ ReturnNeedsApproval
    \/ ReturnSolvedByRag
    \/ ReturnEscalate

Spec == Init /\ [][Next]_vars

\* A step of the graph run as the position sees it: a node is due and the
\* position moves on to another node, to END, or to "failed".  Every step of
\* Next is such a step, and Next has a step in every state in which a node
\* is due.
Progress == pc \in Nodes /\ pc' \in (Nodes \cup {END, FAILED}) \ {pc}

\* app.invoke runs the graph synchronously: as long as a node is due, the
\* run moves on.
SpecFair == Init /\ [][Next]_vars /\ WF_pc(Progress)

\* ---- a second process_ticket call in the same process
\* What the caller sees of a finished call: the final state's outcome and
\* response, or the exception; with it the arguments and what the
\* collaborators answered.
Finished ==
    [args |-> args, returned |-> returned, error |-> error,
     outcome |-> state.outcome, response |-> state.response]

\* Mutant of ProcessTicketAgain: the graph is invoked on the final state of
\* the earlier call instead of a new initial_state.
ProcessTicketAgain_KeepsState ==
    /\ pc \in {END, FAILED}
    /\ IsNone(previous)
    /\ previous' = Some(Finished)
    /\ args' = args
    /\ state' = state
    /\ pc' = Successor(START, state')
    /\ error' = None
    /\ trace' = <<>>
    /\ returned' = [c \in Collaborators |-> None]
    /\ calls' = [c \in Collaborators |-> 0]
    /\ outcome_writes' = 0
    /\ UNCHANGED <<others, shared_writes, cli, copilot, session>>

\* process_ticket is called again with the same arguments once the earlier
\* call has returned or raised: get_compiled_graph() builds a new graph and
\* initial_state is built from the arguments alone.  The module-level
\* _rag_system and _classifier are the only objects that live on, and no
\* call writes to them.
ProcessTicketAgain ==
    /\ pc \in {END, FAILED}
    /\ IsNone(previous)
    /\ previous' = Some(Finished)
    /\ args' = args
    /\ state' = InitialState(args')
    /\ pc' = Successor(START, state')
    /\ error' = None
    /\ trace' = <<>>
    /\ returned' = [c \in Collaborators |-> None]
    /\ calls' = [c \in Collaborators |-> 0]
    /\ outcome_writes' = 0
    /\ UNCHANGED <<others, shared_writes, cli, copilot, session>>

NextTwice ==
    \/ Next
    \/ ProcessTicketAgain

\* The tickets that are submitted twice: one of a known employee that the
\* knowledge base covers, one of an unknown employee without any text.
RepeatedArgs ==
    { [ticket_id |-> "T-1", employee_id |-> "E002", subject |-> "",
       body |-> "Keyboard keys stuck"],
      [ticket_id |-> "T-1", employee_id |-> "E404", subject |-> "", body |-> ""] }

InitTwice == Init /\ args \in RepeatedArgs

SpecTwice == InitTwice /\ [][NextTwice]_vars

\* ---- process_ticket calls that run concurrently (one per thread)
\* A call of its own: the local variables of process_ticket and of app.invoke.
NewRun(a) ==
    [args |-> a, state |-> InitialState(a), pc |-> Successor(START, InitialState(a)),
     error |-> None, trace |-> <<>>,
     returned |-> [c \in Collaborators |-> None],
     calls |-> [c \in Collaborators |-> 0],
     outcome_writes |-> 0]

\* What the collaborator of the node r.pc may answer the call r.
NodeAnswers(r) ==
    CASE r.pc = "lookup_employee_profile" ->
            {[c |-> "lookup_employee", result |-> lookup_employee(csv, r.state.employee_id)] :
                csv \in UsersCsv}
      [] r.pc = "classify_intent_and_appropriateness" ->
            {[c |-> "classify_intent_and_appropriateness",
              result |-> ClassifierClassify(completion)] : completion \in ClassifierCompletions}
      [] r.pc = "check_authorization" ->
            LET a == AuthorizationArgs(r.state)
            IN {[c |-> "apply_authorization_rules", result |-> x] :
                   x \in UNION {apply_authorization_rules(csv, a.intent, a.role, a.department) :
                                   csv \in AuthRulesCsv}}
      [] r.pc = "rag_and_llm_answering" ->
            {[c |-> "process_allowed_ticket",
              result |-> process_allowed_ticket(r.state.employee_id, TicketText(r.state),
                                                Val(r.state.intent), completion)] :
                completion \in SolutionCompletions}
      [] r.pc \in TerminalNodes -> {[c |-> "none"]}

\* The update that node `node` returns on state st when its collaborator
\* answers ans.
NodeUpdate(node, st, ans) ==
    CASE node = "lookup_employee_profile" -> lookup_employee_profile(st, ans.result)
      [] node = "classify_intent_and_appropriateness" ->
            classify_intent_and_appropriateness(st, ans.result)
      [] node = "check_authorization" -> check_authorization(st, ans.result)
      [] node = "rag_and_llm_answering" -> rag_and_llm_answering(st, ans.result)
      [] node = "return_blocked_by_appropriateness" -> return_blocked_by_appropriateness(st)
      [] node = "return_blocked_by_auth" -> return_blocked_by_auth(st)
      [] node = "return_needs_approval" -> return_needs_approval(st)
      [] node = "return_solved_by_rag" -> return_solved_by_rag(st)
      [] node = "return_escalate" -> return_escalate(st)

\* The call r after its node r.pc ran with the collaborator answer ans.
After(r, ans) ==
    LET update == NodeUpdate(r.pc, r.state, ans)
        merged == Merge(r.state, update)
    IN [args |-> r.args,
        state |-> IF IsRaised(update) THEN r.state ELSE merged,
        pc |-> IF IsRaised(update) THEN FAILED ELSE Successor(r.pc, merged),
        error |-> IF IsRaised(update) THEN Some(update.raised) ELSE r.error,
        trace |-> Append(r.trace, r.pc),
        returned |-> IF ans.c \in Collaborators
                     THEN [r.returned EXCEPT ![ans.c] = Some(ans.result)] ELSE r.returned,
        calls |-> IF ans.c \in Collaborators
                  THEN [r.calls EXCEPT ![ans.c] = @ + 1] ELSE r.calls,
        outcome_writes |-> r.outcome_writes
             + (IF ~IsRaised(update) /\ "outcome" \in DOMAIN update THEN 1 ELSE 0)]

\* The ticket that the other thread submits: one of the repeated tickets.
ConcurrentArgs ==
    { [ticket_id |-> "T-1", employee_id |-> "E404", subject |-> "", body |-> ""] }

\* Another thread calls process_ticket while this call is running.
StartOtherRun ==
    /\ pc \in Nodes
    /\ others = <<>>
    /\ \E a \in ConcurrentArgs : others' = <<NewRun(a)>>
    /\ UNCHANGED <<args, state, pc, error, trace, returned, calls, outcome_writes,
                   previous, shared_writes, cli, copilot, session>>

\* Mutant of OtherRunStep: the nodes of all calls write into one state dict.
OtherRunStep_SharedState ==
    /\ others # <<>>
    /\ others[1].pc \in Nodes
    /\ \E ans \in NodeAnswers(others[1]) :
          /\ others' = <<After(others[1], ans)>>
          /\ state' = others'[1].state
    /\ UNCHANGED <<args, pc, error, trace, returned, calls, outcome_writes,
                   previous, shared_writes, cli, copilot, session>>

\* The other call executes its next node: it works on its own state, graph
\* and collaborator answers, and calls only methods of _rag_system and
\* _classifier that assign no attribute.
OtherRunStep ==
    /\ others # <<>>
    /\ others[1].pc \in Nodes
    /\ \E ans \in NodeAnswers(others[1]) : others' = <<After(others[1], ans)>>
    /\ UNCHANGED <<args, state, pc, error, trace, returned, calls, outcome_writes,
                   previous, shared_writes, cli, copilot, session>>

NextConcurrent ==
    \/ Next
    \/ StartOtherRun
    \/ OtherRunStep

SpecConcurrent == InitTwice /\ [][NextConcurrent]_vars

\* ---------------------------------------------------------------- main.py
\* The longest description (in non-blank lines) that the user types.
MaxBodyLines == 2

\* Lines that the user may type at the three prompts.
CliIdInputs == {"", "E001", "E002", " E404 "}
CliSubjectInputs == {"", "  ", "VPN problem", "Access request "}
CliBodyInputs == {"", "Keyboard keys stuck", "  cannot type "}

\* "\n".join(lines)
RECURSIVE JoinLines(_)
JoinLines(lines) ==
    IF Len(lines) = 0 THEN ""
    ELSE IF Len(lines) = 1 THEN lines[1]
    ELSE lines[1] \o "\n" \o JoinLines(Tail(lines))

\* The parameters of process_ticket, all positional and required.
process_ticket_params == <<"ticket_id", "employee_id", "subject", "body">>

\* Python's binding of the positional arguments `actuals` to the required
\* parameters `params`: a TypeError unless there is one argument per parameter.
BindPositional(params, actuals) ==
    IF Len(actuals) # Len(params) THEN Raised("TypeError")
    ELSE [k \in {params[i] : i \in 1..Len(params)} |->
             actuals[CHOOSE i \in 1..Len(params) : params[i] = k]]

\* main() at the start of get_user_input().
CliStart ==
    [at |-> "employee_id", employee_id |-> "", subject |-> "", body_lines |-> <<>>,
     empty_line_count |-> 0, body |-> "", shown |-> None, error_shown |-> None,
     exit_code |-> None, ended_by |-> None]

\* display_result(result): the status line and the message that are printed.
display_result(result) ==
    [status |-> DictGet(result, "outcome", Some("Unknown")),
     message |-> DictGet(result, "response", Some("No response available"))]

\* No process_ticket call has been made.
InitCli ==
    /\ cli = Some(CliStart)
    /\ args = None
    /\ state = None
    /\ pc = "not_called"
    /\ error = None
    /\ trace = <<>>
    /\ returned = [c \in Collaborators |-> None]
    /\ calls = [c \in Collaborators |-> 0]
    /\ outcome_writes = 0
    /\ previous = None
    /\ others = <<>>
    /\ shared_writes = {}
    /\ copilot = None
    /\ session = None

PipelineVars == <<args, state, pc, error, trace, returned, calls, outcome_writes,
                  previous, others, shared_writes, copilot, session>>

\* get_user_input: the loop that reads the employee id.
CliEnterEmployeeId ==
    /\ ~IsNone(cli) /\ Val(cli).at = "employee_id"
    /\ \E line \in CliIdInputs :
          LET employee_id == Strip(line)
          IN cli' = IF employee_id # ""
                    THEN Some([Val(cli) EXCEPT !.employee_id = employee_id, !.at = "subject"])
                    ELSE cli
    /\ UNCHANGED PipelineVars

\* get_user_input: the loop that reads the subject.
CliEnterSubject ==
    /\ ~IsNone(cli) /\ Val(cli).at = "subject"
    /\ \E line \in CliSubjectInputs :
          LET subject == Strip(line)
          IN cli' = IF subject # ""
                    THEN Some([Val(cli) EXCEPT !.subject = subject, !.at = "body"])
                    ELSE cli
    /\ UNCHANGED PipelineVars

\* get_user_input: one pass of the loop that reads the description, and what
\* follows the loop when the second blank line in a row ends it.  An empty
\* description starts get_user_input again.
CliEnterDescriptionLine ==
    /\ ~IsNone(cli) /\ Val(cli).at = "body"
    /\ \E line \in CliBodyInputs :
          LET c == Val(cli)
          IN IF Strip(line) = ""
             THEN IF c.empty_line_count + 1 >= 2
                  THEN LET body == Strip(JoinLines(c.body_lines))
                       IN cli' = IF body = "" THEN Some(CliStart)
                                 ELSE Some([c EXCEPT !.empty_line_count = @ + 1,
                                                     !.body = body, !.at = "submit"])
                  ELSE cli' = Some([c EXCEPT !.empty_line_count = @ + 1])
             ELSE /\ Len(c.body_lines) < MaxBodyLines
                  /\ cli' = Some([c EXCEPT !.empty_line_count = 0,
                                           !.body_lines = Append(@, line)])
    /\ UNCHANGED PipelineVars

\* main(): result = process_ticket(employee_id, subject, body).  When the call
\* cannot be bound, `except Exception` prints the error and exits with 1;
\* otherwise the pipeline starts with the bound arguments.
CliSubmit ==
    /\ ~IsNone(cli) /\ Val(cli).at = "submit"
    /\ LET c == Val(cli)
           bound == BindPositional(process_ticket_params, <<c.employee_id, c.subject, c.body>>)
       IN IF IsRaised(bound)
          THEN /\ cli' = Some([c EXCEPT !.at = "exited",
                                       !.error_shown = Some(bound.raised),
                                       !.exit_code = Some(1)])
               /\ UNCHANGED PipelineVars
          ELSE /\ cli' = Some([c EXCEPT !.at = "processing"])
               /\ args' = bound
               /\ state' = InitialState(bound)
               /\ pc' = Successor(START, state')
               /\ UNCHANGED <<error, trace, returned, calls, outcome_writes, previous,
                              others, shared_writes, copilot, session>>

\* main(): display_result(result) once process_ticket has returned, or the
\* `except Exception` branch once it has raised.
CliDisplayResult ==
    /\ ~IsNone(cli) /\ Val(cli).at = "processing"
    /\ pc \in {END, FAILED}
    /\ cli' = IF pc = END
              THEN Some([Val(cli) EXCEPT !.at = "returned",
                                         !.shown = Some(display_result(state))])
              ELSE Some([Val(cli) EXCEPT !.at = "exited", !.error_shown = error,
                                         !.exit_code = Some(1)])
    /\ UNCHANGED PipelineVars

\* The steps of `python main.py`.  (No call of main binds: the nodes of the
\* graph and CliDisplayResult never get to run from main.)
NextCli ==
    \/ CliEnterEmployeeId
    \/ CliEnterSubject
    \/ CliEnterDescriptionLine
    \/ CliSubmit

SpecCli == InitCli /\ [][NextCli]_vars

\* ---- interactive_mode (python main.py --interactive)
\* Lines the user may type at "Would you like to submit a ticket? (y/n/quit): ".
CliMenuInputs == {"y", " Yes ", "n", "quit", "Q", "maybe"}

\* interactive_mode at its first prompt; no process_ticket call has been made.
InitInteractive ==
    /\ cli = Some([CliStart EXCEPT !.at = "menu"])
    /\ args = None
    /\ state = None
    /\ pc = "not_called"
    /\ error = None
    /\ trace = <<>>
    /\ returned = [c \in Collaborators |-> None]
    /\ calls = [c \in Collaborators |-> 0]
    /\ outcome_writes = 0
    /\ previous = None
    /\ others = <<>>
    /\ shared_writes = {}
    /\ copilot = None
    /\ session = None

\* One pass of the loop of interactive_mode: quit/exit/q leaves the loop,
\* y/yes calls main(), which starts get_user_input, and anything else asks
\* again.
CliAskAction ==
    /\ ~IsNone(cli) /\ Val(cli).at = "menu"
    /\ \E line \in CliMenuInputs :
          LET action == Lower(Strip(line))
          IN cli' = IF action \in {"quit", "exit", "q"}
                    THEN Some([Val(cli) EXCEPT !.at = "exited", !.ended_by = Some("quit")])
                    ELSE IF action \in {"y", "yes"}
                    THEN Some(CliStart)
                    ELSE cli
    /\ UNCHANGED PipelineVars

\* Ctrl-C while the program waits for input: at the prompt of
\* interactive_mode the loop is left; inside main() the `except
\* KeyboardInterrupt` branch calls sys.exit(0), which nothing catches.
CliKeyboardInterrupt ==
    /\ ~IsNone(cli) /\ Val(cli).at \in {"menu", "employee_id", "subject", "body"}
    /\ cli' = Some([Val(cli) EXCEPT !.at = "exited",
                                    !.ended_by = Some("KeyboardInterrupt"),
                                    !.exit_code = IF Val(cli).at = "menu" THEN None ELSE Some(0)])
    /\ UNCHANGED PipelineVars

\* The steps of `python main.py --interactive`.  sys.exit(1) in main's
\* `except Exception` branch raises SystemExit, which is no Exception: the
\* handlers of interactive_mode do not catch it and the program ends, as
\* CliSubmit has it.
NextInteractive ==
    \/ CliAskAction
    \/ CliKeyboardInterrupt
    \/ CliEnterEmployeeId
    \/ CliEnterSubject
    \/ CliEnterDescriptionLine
    \/ CliSubmit

SpecInteractive == InitInteractive /\ [][NextInteractive]_vars

\* ------------------------------------------------------ streamlit_simple.py
\* The knowledge base of GuardRailedSupportCopilot._load_knowledge_base.  Of
\* each article the model keeps the title and
\* set((title + " " + content).lower().split()) as `words`, the value that
\* search_kb_and_generate computes from the article's constant text.
StKbVpn ==
    [ title |-> "VPN Connection Problems",
      words |-> {
        "'ipconfig", "(openvpn/ikev2)", "(set", "-", "/flushdns'", "1.", "2.", "3.",
        "8.8.4.4)", "8.8.8.8", "adapter", "address", "admin", "all:", "and", "at",
        "but", "cache:", "can't", "cannot", "check", "client", "common", "connect",
        "connection", "connectivity", "connects", "contact", "credentials", "different",
        "dns", "drops", "firewall", "flush", "for", "frequently:", "if", "internal",
        "internet", "issues", "it", "network", "network/location", "persists",
        "problems", "protocols", "reach", "reconnecting", "restart", "server",
        "settings", "sites:", "software", "solutions:", "split", "status", "switch",
        "to", "try", "tunneling", "update", "verify", "vpn" } ]

StKbWifi ==
    [ title |-> "Wi-Fi and Network Connectivity",
      words |-> {
        "-", "1.", "2.", "adapter", "and", "background", "check", "connection:",
        "connectivity", "contact", "devices", "different", "disable", "disconnecting:",
        "downloads", "drivers", "for", "forget", "general", "if", "internet", "isp",
        "issue", "keeps", "management", "network", "on", "persists", "power",
        "reconnect", "reset", "restart", "router/modem", "run", "settings", "slow",
        "speed", "test", "to", "troubleshooter", "troubleshooting:", "update", "wi-fi",
        "windows" } ]

StKbKeyboard ==
    [ title |-> "Keyboard and Input Device Issues",
      words |-> {
        "-", "1.", "2.", "activation", "air", "and", "caps", "characters:", "check",
        "clean", "compressed", "confirmed", "damage", "debris", "device", "drivers",
        "external", "for", "if", "in", "input", "issues", "key", "keyboard", "keys",
        "language", "liquid", "mode", "not", "off", "or", "physical", "remove",
        "replace", "responding:", "safe", "settings", "steps:", "sticky", "stuck",
        "test", "troubleshooting", "turn", "typing", "underneath", "update", "with",
        "wrong" } ]

StKbMonitor ==
    [ title |-> "Monitor and Display Problems",
      words |-> {
        "-", "1.", "2.", "adjust", "all", "and", "black", "cable", "cables", "check",
        "connections", "detect", "detected:", "device", "different", "display",
        "displays", "drivers", "external", "flickering:", "graphics", "guide:",
        "monitor", "not", "or", "port", "port/hdmi", "power", "problems", "rate",
        "refresh", "screen", "test", "to", "troubleshooting", "try", "update", "use",
        "windows+p", "with" } ]

StKbOutlook ==
    [ title |-> "Email and Outlook Issues",
      words |-> {
        "'mailbox", "'outlook", "(contact", "-", "/safe'", "1.", "2.", "3.", "account",
        "add-ins", "admin)", "and", "application", "archive", "attachments", "by",
        "cache", "check", "clean", "clear", "connection", "crashing:", "create", "data",
        "delete", "deleted", "disable", "email", "emails", "emails:", "empty",
        "errors:", "files", "folders", "full'", "if", "in", "increase", "installation",
        "internet", "issues", "items", "keeps", "large", "limits", "local", "mailbox",
        "mode:", "needed", "new", "not", "office", "old", "one", "outlook", "profile",
        "quota", "repair", "restart", "safe", "sending/receiving", "settings", "start",
        "storage", "to", "troubleshooting:", "up", "verify" } ]

StKbTeams ==
    [ title |-> "Microsoft Teams and Communication",
      words |-> {
        "(%appdata%\\microsoft\\teams)", "-", "1.", "2.", "and", "app", "application",
        "as", "audio/video", "authenticator", "back", "backup", "cache",
        "calls/meetings", "camera", "check", "clear", "communication", "completely",
        "drivers", "firewall", "for", "in", "issues:", "keeps", "latest", "mfa",
        "microphone", "microsoft", "not", "or", "out", "permissions", "restart",
        "settings", "sign", "signing", "sync", "teams", "temporarily", "test", "time",
        "to", "troubleshooting:", "try", "update", "use", "version", "web", "working:" } ]

StKbRemoteWork ==
    [ title |-> "Remote Work and WFH Policies",
      words |-> {
        "-", "1.", "2", "2.", "3", "6", "9", "access", "after", "align", "am", "and",
        "approval", "available", "cloud", "company", "company-provided", "core", "data",
        "days/week", "devices", "during", "eligibility:", "employment", "endpoint",
        "equipment", "for", "guidelines:", "hours", "hours:", "immediately",
        "incidents", "install", "internal", "keep", "max", "months", "must", "no",
        "only", "personal", "pm", "policies", "probation:", "protection", "remote",
        "report", "required", "requirements:", "security", "software", "storage",
        "system", "updated", "use", "vpn", "wfh", "with", "work" } ]

StKbEquipment ==
    [ title |-> "Equipment Damage and Support",
      words |-> {
        "$1500", "-", "1.", "2", "2.", "48", "accessories", "accidental", "and",
        "coverage", "coverage:", "covered", "covered/not", "covered:", "damage",
        "damage,", "description", "drops,", "during", "equipment", "hours", "incident",
        "incidents", "intentional", "it", "maximum", "may", "negligence", "normal",
        "not", "per", "personal", "photos", "policy:", "provide", "repair",
        "replacement", "report", "spills,", "support", "temporary", "theft,", "to",
        "up", "use", "void", "wear", "what's", "within", "year" } ]

\* self.knowledge_base of the copilot: intent -> list of articles.
Copilot_knowledge_base ==
    [ network_issue |-> <<StKbVpn, StKbWifi>>,
      hardware_issue |-> <<StKbKeyboard, StKbMonitor>>,
      software_issue |-> <<StKbOutlook, StKbTeams>>,
      policy_question |-> <<StKbRemoteWork, StKbEquipment>> ]

\* Rows of ./data/users_roles.csv and ./data/auth_rules.csv that are
\* enumerated for the copilot.
CopilotUserRows == {r \in UserRows : r.department = "engineering"}
CopilotRuleRows == {r \in RuleRows : r.intent \in {"access_request", "*"} /\ r.role # "it_admin"}

\* _load_employees and _load_auth_rules: the table read from the csv; the
\* empty table is also what a failed read gives (pd.DataFrame()).
load_employees == SeqsUpTo(CopilotUserRows, MaxUsers)
load_auth_rules == SeqsUpTo(CopilotRuleRows, MaxRules)

\* d[k] = v for a dict d.
DictPut(d, k, v) == [x \in DOMAIN d \cup {k} |-> IF x = k THEN v ELSE d[x]]

\* GuardRailedSupportCopilot.lookup_employee
Copilot_lookup_employee(employees_df, employee_id) ==
    IF Len(employees_df) = 0 THEN None
    ELSE LET IsEmployee(r) == r.employee_id = employee_id
             employee_row == SelectSeq(employees_df, IsEmployee)
         IN IF Len(employee_row) = 0 THEN None ELSE Some(Head(employee_row))

\* any(term in text for term in terms)
AnyTermIn(terms, text) == \E term \in terms : Contains(text, term)

off_scope_terms ==
    {"personal", "flat", "apartment", "cafeteria", "canteen", "food", "pest control",
     "home", "car", "vacation"}

\* GuardRailedSupportCopilot.classify_intent; confidence is kept as its
\* decimal text.
Copilot_classify_intent(ticket_text) ==
    LET ticket_lower == Lower(ticket_text)
        is_appropriate == ~AnyTermIn(off_scope_terms, ticket_lower)
    IN IF ~is_appropriate
       THEN [intent |-> "off_scope", appropriate |-> FALSE, confidence |-> "0.9"]
       ELSE LET intent ==
                    IF AnyTermIn({"access", "permission", "grant", "rights", "privilege",
                                  "admin", "restricted", "confidential"}, ticket_lower)
                    THEN "access_request"
                    ELSE IF AnyTermIn({"vpn", "network", "wifi", "internet", "connection",
                                       "connectivity"}, ticket_lower)
                    THEN "network_issue"
                    ELSE IF AnyTermIn({"keyboard", "mouse", "monitor", "screen", "hardware",
                                       "laptop", "charger"}, ticket_lower)
                    THEN "hardware_issue"
                    ELSE IF AnyTermIn({"outlook", "email", "teams", "software",
                                       "application", "app", "crash"}, ticket_lower)
                    THEN "software_issue"
                    ELSE IF AnyTermIn({"policy", "wfh", "remote", "work from home",
                                       "approval", "guideline"}, ticket_lower)
                    THEN "policy_question"
                    ELSE "general_inquiry"
            IN [intent |-> intent, appropriate |-> TRUE, confidence |-> "0.8"]

\* The loop of check_authorization over the rows of the rule table, in file
\* order; matched_rule is None or the pair (rule, specificity).
RECURSIVE MatchRules(_, _, _, _, _)
MatchRules(rules, intent, employee_role, employee_dept, matched_rule) ==
    IF Len(rules) = 0 THEN matched_rule
    ELSE LET rule == Head(rules)
             role_match == rule.role = employee_role \/ rule.role = "*"
             dept_match == rule.department = employee_dept \/ rule.department = "*"
             specificity == (IF rule.role # "*" THEN 2 ELSE 0)
                            + (IF rule.department # "*" THEN 1 ELSE 0)
             next == IF rule.intent # intent /\ rule.intent # "*" THEN matched_rule
                     ELSE IF role_match /\ dept_match
                             /\ (IsNone(matched_rule) \/ specificity > Val(matched_rule).specificity)
                     THEN Some([rule |-> rule, specificity |-> specificity])
                     ELSE matched_rule
         IN MatchRules(Tail(rules), intent, employee_role, employee_dept, next)

\* Mutant of Copilot_check_authorization: with no matching rule every intent
\* is allowed.
Copilot_check_authorization_DefaultAllowed(auth_rules_df, employee_profile, intent) ==
    IF Len(auth_rules_df) = 0 THEN "allowed"
    ELSE LET employee_role == DictGet(employee_profile, "role", "")
             employee_dept == DictGet(employee_profile, "department", "")
             matched_rule == MatchRules(auth_rules_df, intent, employee_role, employee_dept, None)
         IN IF ~IsNone(matched_rule) THEN Val(matched_rule).rule.outcome
            ELSE "allowed"

\* GuardRailedSupportCopilot.check_authorization
Copilot_check_authorization(auth_rules_df, employee_profile, intent) ==
    IF Len(auth_rules_df) = 0 THEN "allowed"
    ELSE LET employee_role == DictGet(employee_profile, "role", "")
             employee_dept == DictGet(employee_profile, "department", "")
             matched_rule == MatchRules(auth_rules_df, intent, employee_role, employee_dept, None)
         IN IF ~IsNone(matched_rule) THEN Val(matched_rule).rule.outcome
            ELSE IF intent = "access_request" THEN "needs_approval"
            ELSE "allowed"

\* The loop of search_kb_and_generate over the articles of one intent; `best`
\* is (best_match, best_score) so far.  best_match is "**title**\n\ncontent";
\* the model keeps "**title**".
RECURSIVE Copilot_SearchArticles(_, _, _)
Copilot_SearchArticles(articles, ticket_words, best) ==
    IF Len(articles) = 0 THEN best
    ELSE LET common_words == ticket_words \cap Head(articles).words
             overlap_score == IF Cardinality(ticket_words) > 0
                              THEN Score(Cardinality(common_words), Cardinality(ticket_words))
                              ELSE Score(0, 1)
             next == IF ScoreGreater(overlap_score, best.best_score)
                     THEN [best_match |-> "**" \o Head(articles).title \o "**",
                           best_score |-> overlap_score]
                     ELSE best
         IN Copilot_SearchArticles(Tail(articles), ticket_words, next)

\* GuardRailedSupportCopilot.search_kb_and_generate, given what the chat
\* completion call does if it is made.
Copilot_search_kb_and_generate(ticket_text, intent, completion) ==
    IF intent \notin DOMAIN Copilot_knowledge_base
    THEN [status |-> "escalate",
          message |-> "This issue requires human attention. Your ticket has been escalated.",
          kb_relevance |-> Score(0, 1)]
    ELSE LET ticket_words == WordSet(Lower(ticket_text))
             best == Copilot_SearchArticles(Copilot_knowledge_base[intent], ticket_words,
                                            [best_match |-> "", best_score |-> Score(0, 1)])
         IN IF ScoreAtLeast(best.best_score, 1, 4) /\ best.best_match # ""
            THEN IF completion.ok /\ ~IsNone(completion.content)
                 THEN [status |-> "solved_by_rag",
                       message |-> Strip(Val(completion.content)),
                       kb_relevance |-> best.best_score,
                       kb_context |-> best.best_match]
                 ELSE [status |-> "escalate",
                       message |-> "Error generating solution: "
                                   \o (IF ~completion.ok THEN Val(completion.content)
                                       ELSE "'NoneType' object has no attribute 'strip'"),
                       kb_relevance |-> best.best_score]
            ELSE [status |-> "escalate",
                  message |-> "This issue requires human attention. Your ticket has been escalated to our IT support team.",
                  kb_relevance |-> best.best_score]

\* Ticket texts that are submitted to the copilot ("subject: description").
CopilotTicketTexts ==
    { "Work From Home Policy: What is the policy for work from home?",
      "Remote Policy: what is the remote work policy during probation?",
      "Apartment Pest Control: Please arrange pest control",
      "VPN Issue: VPN connects but cannot reach internal sites",
      "Finance Data Access: I need access to restricted finance data",
      "Laptop: it will not boot since this morning",
      "Printer: toner is empty" }

\* process_ticket(employee_id, ticket_text) of a copilot that loaded the two
\* tables, before its first step.  `at` is the step that runs next, `executed`
\* lists the methods called so far.
CopilotCall(employees_df, auth_rules_df, employee_id, ticket_text) ==
    [employees_df |-> employees_df, auth_rules_df |-> auth_rules_df,
     at |-> "lookup_employee", executed |-> <<>>,
     employee_profile |-> None, classification |-> None, auth_result |-> None,
     result |-> [employee_id |-> employee_id, ticket_text |-> ticket_text,
                 pipeline_steps |-> EmptyDict,
                 final_status |-> None, final_message |-> None]]

\* Mutant of Copilot_step_employee_lookup: an employee that is not found is
\* given an empty profile and the run goes on.
Copilot_step_employee_lookup_GoesOn(c) ==
    LET employee_profile == Copilot_lookup_employee(c.employees_df, c.result.employee_id)
        profile == IF IsNone(employee_profile) THEN EmptyDict ELSE Val(employee_profile)
    IN [c EXCEPT !.executed = Append(@, "lookup_employee"),
                 !.employee_profile = Some(profile),
                 !.result.pipeline_steps = DictPut(@, "employee_lookup", profile),
                 !.at = "classify_intent"]

\* Step 1 of process_ticket.
Copilot_step_employee_lookup(c) ==
    LET employee_profile == Copilot_lookup_employee(c.employees_df, c.result.employee_id)
        called == [c EXCEPT !.executed = Append(@, "lookup_employee"),
                            !.employee_profile = employee_profile]
    IN IF IsNone(employee_profile)
       THEN [called EXCEPT !.result.final_status = Some("employee_not_found"),
                           !.result.final_message =
                               Some("Employee ID " \o c.result.employee_id \o " not found in system."),
                           !.at = "returned"]
       ELSE [called EXCEPT !.result.pipeline_steps =
                               DictPut(@, "employee_lookup", Val(employee_profile)),
                           !.at = "classify_intent"]

\* Mutant of Copilot_step_classification: a ticket that is not appropriate
\* goes on to the authorization check.
Copilot_step_classification_IgnoresAppropriate(c) ==
    LET classification == Copilot_classify_intent(c.result.ticket_text)
    IN [c EXCEPT !.executed = Append(@, "classify_intent"),
                 !.classification = Some(classification),
                 !.result.pipeline_steps = DictPut(@, "classification", classification),
                 !.at = "check_authorization"]

\* Step 2 of process_ticket and the appropriateness check.
Copilot_step_classification(c) ==
    LET classification == Copilot_classify_intent(c.result.ticket_text)
        called == [c EXCEPT !.executed = Append(@, "classify_intent"),
                            !.classification = Some(classification),
                            !.result.pipeline_steps = DictPut(@, "classification", classification)]
    IN IF ~classification.appropriate
       THEN [called EXCEPT !.result.final_status = Some("blocked_by_appropriateness"),
                           !.result.final_message =
                               Some("I'm an internal IT support assistant. I can't help with this type of request."),
                           !.at = "returned"]
       ELSE [called EXCEPT !.at = "check_authorization"]

\* Mutant of Copilot_step_authorization: only blocked_by_auth ends the run,
\* needs_approval goes on to step 4.
Copilot_step_authorization_ApprovalGoesOn(c) ==
    LET intent == Val(c.classification).intent
        auth_result == Copilot_check_authorization(c.auth_rules_df, Val(c.employee_profile), intent)
        called == [c EXCEPT !.executed = Append(@, "check_authorization"),
                            !.auth_result = Some(auth_result),
                            !.result.pipeline_steps = DictPut(@, "authorization", auth_result)]
    IN IF auth_result = "blocked_by_auth"
       THEN [called EXCEPT !.result.final_status = Some("blocked_by_auth"),
                           !.result.final_message =
                               Some("You don't have authorization for this type of request."),
                           !.at = "returned"]
       ELSE IF auth_result \in {"allowed", "needs_approval"}
       THEN [called EXCEPT !.at = "search_kb_and_generate"]
       ELSE [called EXCEPT !.at = "returned"]

\* Step 3 of process_ticket and the branches on auth_result.
Copilot_step_authorization(c) ==
    LET intent == Val(c.classification).intent
        auth_result == Copilot_check_authorization(c.auth_rules_df, Val(c.employee_profile), intent)
        called == [c EXCEPT !.executed = Append(@, "check_authorization"),
                            !.auth_result = Some(auth_result),
                            !.result.pipeline_steps = DictPut(@, "authorization", auth_result)]
    IN IF auth_result = "blocked_by_auth"
       THEN [called EXCEPT !.result.final_status = Some("blocked_by_auth"),
                           !.result.final_message =
                               Some("You don't have authorization for this type of request."),
                           !.at = "returned"]
       ELSE IF auth_result = "needs_approval"
       THEN [called EXCEPT !.result.final_status = Some("needs_approval"),
                           !.result.final_message =
                               Some("This request requires manager approval. Please contact your supervisor."),
                           !.at = "returned"]
       ELSE IF auth_result = "allowed"
       THEN [called EXCEPT !.at = "search_kb_and_generate"]
       ELSE [called EXCEPT !.at = "returned"]

\* Step 4 of process_ticket.
Copilot_step_rag(c, completion) ==
    LET intent == Val(c.classification).intent
        rag_result == Copilot_search_kb_and_generate(c.result.ticket_text, intent, completion)
    IN [c EXCEPT !.executed = Append(@, "search_kb_and_generate"),
                 !.result.pipeline_steps = DictPut(@, "rag", rag_result),
                 !.result.final_status = Some(rag_result.status),
                 !.result.final_message = Some(rag_result.message),
                 !.at = "returned"]

\* A copilot is constructed and process_ticket is called on it; the graph
\* pipeline and the command-line client are not used.
InitStreamlit ==
    /\ copilot \in {Some(CopilotCall(employees_df, auth_rules_df, employee_id, ticket_text)) :
                       employees_df \in load_employees, auth_rules_df \in load_auth_rules,
                       employee_id \in EmployeeIds, ticket_text \in CopilotTicketTexts}
    /\ session = None
    /\ cli = None
    /\ args = None
    /\ state = None
    /\ pc = "not_called"
    /\ error = None
    /\ trace = <<>>
    /\ returned = [c \in Collaborators |-> None]
    /\ calls = [c \in Collaborators |-> 0]
    /\ outcome_writes = 0
    /\ previous = None
    /\ others = <<>>
    /\ shared_writes = {}

NotCopilotVars == <<args, state, pc, error, trace, returned, calls, outcome_writes,
                    previous, others, shared_writes, cli, session>>

CopilotAt(step) == ~IsNone(copilot) /\ Val(copilot).at = step

CopilotLookupEmployee ==
    /\ CopilotAt("lookup_employee")
    /\ copilot' = Some(Copilot_step_employee_lookup(Val(copilot)))
    /\ UNCHANGED NotCopilotVars

CopilotClassifyIntent ==
    /\ CopilotAt("classify_intent")
    /\ copilot' = Some(Copilot_step_classification(Val(copilot)))
    /\ UNCHANGED NotCopilotVars

CopilotCheckAuthorization ==
    /\ CopilotAt("check_authorization")
    /\ copilot' = Some(Copilot_step_authorization(Val(copilot)))
    /\ UNCHANGED NotCopilotVars

CopilotSearchKbAndGenerate ==
    /\ CopilotAt("search_kb_and_generate")
    /\ \E completion \in SolutionCompletions :
          copilot' = Some(Copilot_step_rag(Val(copilot), completion))
    /\ UNCHANGED NotCopilotVars

NextStreamlit ==
    \/ CopilotLookupEmployee
    \/ CopilotClassifyIntent
    \/ CopilotCheckAuthorization
    \/ CopilotSearchKbAndGenerate

SpecStreamlit == InitStreamlit /\ [][NextStreamlit]_vars

\* ---------------------------------------------- streamlit_simple.py: main
\* The page script runs again on every interaction; st.session_state keeps the
\* copilot and the two counters between the runs.

\* GuardRailedSupportCopilot.process_ticket as one call: the four steps in
\* order, each one only if the step before did not return.
Copilot_process_ticket(c, completion) ==
    LET c1 == Copilot_step_employee_lookup(c)
        c2 == IF c1.at = "classify_intent" THEN Copilot_step_classification(c1) ELSE c1
        c3 == IF c2.at = "check_authorization" THEN Copilot_step_authorization(c2) ELSE c2
    IN IF c3.at = "search_kb_and_generate" THEN Copilot_step_rag(c3, completion) ELSE c3

\* What the employee widget can hold: a selectbox over '' and the ids of the
\* table, or a free text input when the table is empty.
StEmployeeOptions(employees_df) ==
    IF Len(employees_df) > 0
    THEN {""} \cup {employees_df[i].employee_id : i \in 1..Len(employees_df)}
    ELSE {"", "E007"}

\* What the subject and description widgets may hold when the button is clicked.
StSubjects == {"", "VPN Issue "}
StDescriptions == {" ", "VPN connects but cannot reach internal sites",
                   "I need access to restricted finance data"}

\* if process_button and selected_employee and ticket_subject.strip() and ticket_text.strip()
StFormIsComplete(selected_employee, ticket_subject, ticket_text) ==
    /\ selected_employee # ""
    /\ Strip(ticket_subject) # ""
    /\ Strip(ticket_text) # ""

\* Mutant of StProcessTicketBranch: solved_count counts every ticket that
\* reached the knowledge-base search.
StProcessTicketBranch_CountsEverySearch(s, c, selected_employee, ticket_subject, ticket_text, completion) ==
    LET full_ticket == Strip(ticket_subject) \o ": " \o Strip(ticket_text)
        call == CopilotCall(c.employees_df, c.auth_rules_df, selected_employee, full_ticket)
        result == Copilot_process_ticket(call, completion)
        counted == [s EXCEPT !.processed_count = @ + 1]
    IN [copilot |-> result,
        session |-> IF "rag" \in DOMAIN result.result.pipeline_steps
                    THEN [counted EXCEPT !.solved_count = @ + 1]
                    ELSE counted]

\* The branch of the page script for a click with every field filled, up to
\* the update of the counters: session state s and copilot c give the new
\* session state and the finished process_ticket call.
StProcessTicketBranch(s, c, selected_employee, ticket_subject, ticket_text, completion) ==
    LET full_ticket == Strip(ticket_subject) \o ": " \o Strip(ticket_text)
        call == CopilotCall(c.employees_df, c.auth_rules_df, selected_employee, full_ticket)
        result == Copilot_process_ticket(call, completion)
        final_status == result.result.final_status
        counted == [s EXCEPT !.processed_count = @ + 1]
    IN [copilot |-> result,
        session |-> IF final_status = Some("solved_by_rag")
                    THEN [counted EXCEPT !.solved_count = @ + 1]
                    ELSE counted]

\* The first run of the page script: the copilot is constructed (no call of
\* process_ticket on it yet) and both counters are set to 0.  The tables the
\* copilot loaded are those of at most one row.
InitSession ==
    /\ copilot \in {Some([CopilotCall(employees_df, auth_rules_df, "", "")
                             EXCEPT !.at = "constructed"]) :
                       employees_df \in {t \in load_employees : Len(t) <= 1},
                       auth_rules_df \in {t \in load_auth_rules : Len(t) <= 1}}
    /\ session = Some([processed_count |-> 0, solved_count |-> 0,
                       clicks |-> 0, form |-> None])
    /\ cli = None
    /\ args = None
    /\ state = None
    /\ pc = "not_called"
    /\ error = None
    /\ trace = <<>>
    /\ returned = [c \in Collaborators |-> None]
    /\ calls = [c \in Collaborators |-> 0]
    /\ outcome_writes = 0
    /\ previous = None
    /\ others = <<>>
    /\ shared_writes = {}

\* A click on the process button with every field filled; form is the form as
\* it was at the click.  The chat completion call, if made, gives a reply, a
\* message without content, or raises.
StProcessTicket ==
    /\ ~IsNone(session) /\ Val(session).clicks < MaxSubmissions
    /\ \E selected_employee \in StEmployeeOptions(Val(copilot).employees_df),
          ticket_subject \in StSubjects, ticket_text \in StDescriptions,
          completion \in
              {[ok |-> TRUE, content |-> Some("Replace the keyboard.")],
               [ok |-> TRUE, content |-> None],
               [ok |-> FALSE, content |-> Some("Connection error.")]} :
          /\ StFormIsComplete(selected_employee, ticket_subject, ticket_text)
          /\ LET clicked == [Val(session) EXCEPT
                                !.clicks = @ + 1,
                                !.form = Some([selected_employee |-> selected_employee,
                                               ticket_subject |-> ticket_subject,
                                               ticket_text |-> ticket_text])]
                 done == StProcessTicketBranch(clicked, Val(copilot), selected_employee,
                                               ticket_subject, ticket_text, completion)
             IN /\ session' = Some(done.session)
                /\ copilot' = Some(done.copilot)
    /\ UNCHANGED <<args, state, pc, error, trace, returned, calls, outcome_writes,
                   previous, others, shared_writes, cli>>

\* A click on the process button with a field missing: the warning is shown.
StMissingFields ==
    /\ ~IsNone(session) /\ Val(session).clicks < MaxSubmissions
    /\ \E selected_employee \in StEmployeeOptions(Val(copilot).employees_df),
          ticket_subject \in StSubjects, ticket_text \in StDescriptions :
          /\ ~StFormIsComplete(selected_employee, ticket_subject, ticket_text)
          /\ session' = Some([Val(session) EXCEPT
                                 !.clicks = @ + 1,
                                 !.form = Some([selected_employee |-> selected_employee,
                                               ticket_subject |-> ticket_subject,
                                               ticket_text |-> ticket_text])])
    /\ UNCHANGED copilot
    /\ UNCHANGED <<args, state, pc, error, trace, returned, calls, outcome_writes,
                   previous, others, shared_writes, cli>>

NextSession ==
    \/ StProcessTicket
    \/ StMissingFields

SpecSession == InitSession /\ [][NextSession]_vars

\* ================================================================ claims
OutcomeLabels == {"blocked_by_appropriateness", "blocked_by_auth", "needs_approval",
                  "solved_by_rag", "escalate"}

\* The node names that occur in the trace.
Executed == {trace[i] : i \in 1..Len(trace)}

\* Collaborator c was called and returned a value (it did not raise).
Answered(c) == ~IsNone(returned[c]) /\ ~IsRaised(Val(returned[c]))
Answer(c) == Val(returned[c])

ClassifiedAppropriate ==
    /\ Answered("classify_intent_and_appropriateness")
    /\ Answer("classify_intent_and_appropriateness").is_appropriate
ClassifiedNotAppropriate ==
    /\ Answered("classify_intent_and_appropriateness")
    /\ ~Answer("classify_intent_and_appropriateness").is_appropriate
AuthorizationDecided(decision) ==
    /\ Answered("apply_authorization_rules")
    /\ Answer("apply_authorization_rules").auth_status = decision
ResolutionStatus(status) ==
    /\ Answered("process_allowed_ticket")
    /\ Answer("process_allowed_ticket").status = status

\* C1: a process_ticket run that reaches END has written exactly one outcome,
\* which is one of the five outcome labels, and a response that is a
\* non-empty text.
C1_OneOutcomeNonEmptyResponse ==
    pc = END =>
        /\ outcome_writes = 1
        /\ ~IsNone(state.outcome) /\ Val(state.outcome) \in OutcomeLabels
        /\ ~IsNone(state.response) /\ Val(state.response) # ""

\* A run ended with a solution that the Resolution Engine generated.
C1_Witness ==
    /\ pc = END
    /\ state.outcome = Some("solved_by_rag")
    /\ Len(Val(state.response)) > 50

\* C2: once the classifier has reported the ticket as not appropriate, the
\* authorization stage and the resolution stage do not execute (their
\* collaborators are not called), the only node that follows is
\* return_blocked_by_appropriateness, and the run ends with outcome
\* blocked_by_appropriateness.
C2_NotAppropriateIsBlocked ==
    ClassifiedNotAppropriate =>
        /\ "check_authorization" \notin Executed
        /\ "rag_and_llm_answering" \notin Executed
        /\ calls["apply_authorization_rules"] = 0
        /\ calls["process_allowed_ticket"] = 0
        /\ pc \in {"return_blocked_by_appropriateness", END}
        /\ pc = END => state.outcome = Some("blocked_by_appropriateness")

\* A run ended for an access request that the classifier found not appropriate.
C2_Witness ==
    /\ pc = END
    /\ ClassifiedNotAppropriate
    /\ Answer("classify_intent_and_appropriateness").intent = "access_request"
    /\ ~IsNone(state.employee_profile) /\ Val(state.employee_profile) # EmptyDict

\* C3: once the ticket is classified appropriate and the authorization rules
\* have decided needs_approval, the Resolution Engine is not invoked (its
\* call count stays 0, rag_and_llm_answering does not execute) and the run
\* ends with outcome needs_approval.
C3_NeedsApprovalStops ==
    (ClassifiedAppropriate /\ AuthorizationDecided("needs_approval")) =>
        /\ calls["process_allowed_ticket"] = 0
        /\ "rag_and_llm_answering" \notin Executed
        /\ pc \in {"return_needs_approval", END}
        /\ pc = END => state.outcome = Some("needs_approval")

\* A run ended after the rules decided needs_approval.
C3_Witness ==
    /\ pc = END
    /\ ClassifiedAppropriate
    /\ AuthorizationDecided("needs_approval")
    /\ state.intent = Some("access_request")

\* C4: once the ticket is classified appropriate and the authorization rules
\* have decided blocked_by_auth, the Resolution Engine is never invoked and
\* the run ends with outcome blocked_by_auth.
C4_BlockedByAuthStops ==
    (ClassifiedAppropriate /\ AuthorizationDecided("blocked_by_auth")) =>
        /\ calls["process_allowed_ticket"] = 0
        /\ "rag_and_llm_answering" \notin Executed
        /\ pc \in {"return_blocked_by_auth", END}
        /\ pc = END => state.outcome = Some("blocked_by_auth")

\* A run ended after a rule of the table decided blocked_by_auth.
C4_Witness ==
    /\ pc = END
    /\ ClassifiedAppropriate
    /\ AuthorizationDecided("blocked_by_auth")
    /\ Answer("apply_authorization_rules").reason = "Junior engineers may not request access."

\* C5: when the ticket is classified appropriate, the authorization decision
\* is allowed and the Resolution Engine returns status solved_by_rag, the
\* run ends with outcome solved_by_rag and a response equal to the message
\* the Resolution Engine returned.
C5_SolvedPassesMessage ==
    (/\ pc = END
     /\ ClassifiedAppropriate
     /\ AuthorizationDecided("allowed")
     /\ ResolutionStatus("solved_by_rag")) =>
        /\ state.outcome = Some("solved_by_rag")
        /\ state.response = Some(Answer("process_allowed_ticket").message)

\* A run ended with the solution text of the language model as response.
C5_Witness ==
    /\ pc = END
    /\ ResolutionStatus("solved_by_rag")
    /\ state.response =
          Some("Flush the DNS cache, restart the network adapter and reconnect the VPN.")

\* C6: when the ticket is classified appropriate, the authorization decision
\* is allowed and the Resolution Engine returns a status other than
\* solved_by_rag, the run ends with outcome escalate.
C6_NotAnsweredEscalates ==
    (/\ ClassifiedAppropriate
     /\ AuthorizationDecided("allowed")
     /\ Answered("process_allowed_ticket")
     /\ ~ResolutionStatus("solved_by_rag")) =>
        /\ pc \in {"return_escalate", END}
        /\ pc = END => state.outcome = Some("escalate")

\* A run escalated a hardware ticket that the knowledge base does not cover.
C6_Witness ==
    /\ pc = END
    /\ AuthorizationDecided("allowed")
    /\ ResolutionStatus("escalate")
    /\ state.intent = Some("hardware_issue")
    /\ state.outcome = Some("escalate")

\* C7: a run that ends in return_escalate has as response the message that
\* the Resolution Engine returned with its escalate status.
C7_EscalatePassesMessage ==
    (pc = END /\ state.outcome = Some("escalate")) =>
        state.response = Some(Answer("process_allowed_ticket").message)

\* The edges of the stage graph that the specification defines.
DefinedEdges ==
    { <<"lookup_employee_profile", "classify_intent_and_appropriateness">>,
      <<"classify_intent_and_appropriateness", "check_authorization">>,
      <<"classify_intent_and_appropriateness", "return_blocked_by_appropriateness">>,
      <<"check_authorization", "rag_and_llm_answering">>,
      <<"check_authorization", "return_needs_approval">>,
      <<"check_authorization", "return_blocked_by_auth">>,
      <<"rag_and_llm_answering", "return_solved_by_rag">>,
      <<"rag_and_llm_answering", "return_escalate">> }

\* C8: in every run the executed nodes form a path of the defined graph that
\* starts at Lookup: no node executes twice, Lookup is first, and each node
\* that executes directly follows a node from which a defined edge leads to
\* it (so Classify follows Lookup, Authorize follows Classify, Resolve
\* follows Authorize, and a terminal node follows the stage that branches
\* to it; nothing follows a terminal node).
C8_StagesInOrder ==
    /\ \A i, j \in 1..Len(trace) : trace[i] = trace[j] => i = j
    /\ Len(trace) > 0 => trace[1] = "lookup_employee_profile"
    /\ \A i \in 1..(Len(trace) - 1) : <<trace[i], trace[i + 1]>> \in DefinedEdges

\* A run went through all four stages and a terminal node.
C8_Witness ==
    /\ pc = END
    /\ Len(trace) = 5
    /\ trace[4] = "rag_and_llm_answering"

\* C9: in every reachable state the fields that a stage produces are None as
\* long as that stage has not executed, and outcome and response are None as
\* long as no terminal node has executed.
C9_FieldsUnsetUntilStage ==
    /\ "lookup_employee_profile" \notin Executed => IsNone(state.employee_profile)
    /\ "classify_intent_and_appropriateness" \notin Executed =>
          IsNone(state.is_appropriate) /\ IsNone(state.intent)
    /\ "check_authorization" \notin Executed =>
          IsNone(state.auth_decision) /\ IsNone(state.auth_reason)
    /\ "rag_and_llm_answering" \notin Executed =>
          IsNone(state.rag_context) /\ IsNone(state.rag_answer)
          /\ IsNone(state.has_good_context)
    /\ Executed \cap TerminalNodes = {} =>
          IsNone(state.outcome) /\ IsNone(state.response)

\* Authorize has run and allowed the ticket; Resolve has not run yet.
C9_Witness ==
    /\ pc = "rag_and_llm_answering"
    /\ state.auth_decision = Some("allowed")
    /\ IsNone(state.rag_answer) /\ IsNone(state.outcome)

\* C10: the outcome is written at most once, and it is set exactly when one
\* terminal node has executed, as the last node of the run; from then on
\* the run is at END, no node executes, and outcome and response keep their
\* values.
C10_OutcomeWrittenOnce ==
    /\ [](/\ outcome_writes <= 1
          /\ ~IsNone(state.outcome) <=> outcome_writes = 1
          /\ ~IsNone(state.outcome) =>
                /\ pc = END
                /\ Cardinality({i \in 1..Len(trace) : trace[i] \in TerminalNodes}) = 1
                /\ trace[Len(trace)] \in TerminalNodes)
    /\ [][~IsNone(state.outcome) =>
            /\ trace' = trace
            /\ state'.outcome = state.outcome
            /\ state'.response = state.response]_vars

\* The terminal node return_needs_approval has written the outcome.
C10_Witness ==
    /\ outcome_writes = 1
    /\ trace[Len(trace)] = "return_needs_approval"
    /\ state.response = Some("Your request requires manager approval before it can be processed.")

\* Values of auth_decision that are neither allowed nor needs_approval: the
\* unset value, blocked_by_auth, and strings that only a rule table can hold.
OtherDecisions == {None, Some("blocked_by_auth"), Some("denied"), Some(""), Some("Allowed")}

\* C11: with any value of auth_decision other than allowed and
\* needs_approval (blocked_by_auth, None, or an unrecognised string) the
\* node after check_authorization is return_blocked_by_auth; and once the
\* rules have answered such a value, process_allowed_ticket is not called,
\* rag_and_llm_answering does not execute, and the run ends with outcome
\* blocked_by_auth.
C11_OtherDecisionsAreBlocked ==
    /\ \A d \in OtherDecisions :
          Successor("check_authorization", [state EXCEPT !.auth_decision = d])
              = "return_blocked_by_auth"
    /\ (/\ Answered("apply_authorization_rules")
        /\ Answer("apply_authorization_rules").auth_status \notin {"allowed", "needs_approval"}) =>
           /\ calls["process_allowed_ticket"] = 0
           /\ "rag_and_llm_answering" \notin Executed
           /\ pc \in {"return_blocked_by_auth", END}
           /\ pc = END => state.outcome = Some("blocked_by_auth")

\* A run ended after the rule table gave the outcome "denied".
C11_Witness ==
    /\ pc = END
    /\ AuthorizationDecided("denied")
    /\ state.auth_decision = Some("denied")
    /\ state.outcome = Some("blocked_by_auth")

\* C12: for the (intent, role, department) of every ticket that reaches
\* check_authorization and every rule table of which no row applies to them,
\* apply_authorization_rules returns blocked_by_auth with a non-empty reason,
\* the node that follows is return_blocked_by_auth and it writes the outcome
\* blocked_by_auth; a run of an appropriate ticket that got this answer ends
\* with outcome blocked_by_auth.
C12_NoRuleIsBlockedByAuth ==
    /\ pc = "check_authorization" =>
          LET a == AuthorizationArgs(state)
          IN \A csv \in AuthRulesCsv :
                (csv.ok /\ Len(ApplicableRules(csv.rows, a.intent, a.role, a.department)) = 0) =>
                    \A result \in apply_authorization_rules(csv, a.intent, a.role, a.department) :
                       /\ ~IsRaised(result)
                       /\ result.auth_status = "blocked_by_auth"
                       /\ result.reason # ""
                       /\ LET decided == Merge(state, check_authorization(state, result))
                          IN /\ Successor("check_authorization", decided) = "return_blocked_by_auth"
                             /\ return_blocked_by_auth(decided).outcome = Some("blocked_by_auth")
    /\ (/\ pc = END
        /\ ClassifiedAppropriate
        /\ Answered("apply_authorization_rules")
        /\ Answer("apply_authorization_rules").reason = "No applicable authorization rule found.") =>
           state.outcome = Some("blocked_by_auth")

\* A run of an appropriate ticket ended after the rules found no applicable row.
C12_Witness ==
    /\ pc = END
    /\ ClassifiedAppropriate
    /\ Answered("apply_authorization_rules")
    /\ Answer("apply_authorization_rules") =
          [auth_status |-> "blocked_by_auth", reason |-> "No applicable authorization rule found."]
    /\ state.auth_reason = Some("No applicable authorization rule found.")
    /\ trace[Len(trace)] = "return_blocked_by_auth"

\* C13: whatever apply_authorization_rules returns as decision is one of
\* allowed, needs_approval, blocked_by_auth.
C13_DecisionIsOneOfThree ==
    Answered("apply_authorization_rules") =>
        Answer("apply_authorization_rules").auth_status
            \in {"allowed", "needs_approval", "blocked_by_auth"}

\* The categories that the classification prompt enumerates.
Categories == {"hardware_issue", "software_issue", "network_issue", "access_request",
               "policy_question", "off_scope"}

\* C14: the intent that the classifier returns, and that the pipeline stores,
\* is one of the six categories or the one fallback label ("ambiguous", the
\* default of parsed.get).
C14_IntentIsACategory ==
    /\ Answered("classify_intent_and_appropriateness") =>
          Answer("classify_intent_and_appropriateness").intent \in Categories \cup {"ambiguous"}
    /\ ~IsNone(state.intent) => Val(state.intent) \in Categories \cup {"ambiguous"}

\* C15: whatever the language model replies, the classifier returns a result
\* with an intent and a boolean is_appropriate and does not raise, so the
\* classification stage never fails the run.
C15_ClassifierNeverRaises ==
    ~IsNone(returned["classify_intent_and_appropriateness"]) =>
        LET result == Val(returned["classify_intent_and_appropriateness"])
        IN /\ ~IsRaised(result)
           /\ DOMAIN result = {"intent", "is_appropriate"}
           /\ result.is_appropriate \in BOOLEAN
           /\ ~(pc = FAILED /\ trace[Len(trace)] = "classify_intent_and_appropriateness")

\* The stage node that calls each collaborator, and the fields it fills in.
StageOf ==
    [lookup_employee |-> "lookup_employee_profile",
     classify_intent_and_appropriateness |-> "classify_intent_and_appropriateness",
     apply_authorization_rules |-> "check_authorization",
     process_allowed_ticket |-> "rag_and_llm_answering"]
FieldsOf ==
    [lookup_employee |-> {"employee_profile"},
     classify_intent_and_appropriateness |-> {"is_appropriate", "intent"},
     apply_authorization_rules |-> {"auth_decision", "auth_reason"},
     process_allowed_ticket |-> {"rag_context", "rag_answer", "has_good_context"}]

\* Collaborator c was called and raised.
HasRaised(c) == ~IsNone(returned[c]) /\ IsRaised(Val(returned[c]))

\* C16: no collaborator is called twice; once a collaborator has raised, the
\* run has failed with that exception as the error of process_ticket, the
\* stage that made the call is the last node that executed, no terminal
\* node has executed, the fields of the failing stage are unset (no
\* fallback value), and there is no outcome and no response.  A run fails
\* only in this way.
C16_RaiseFailsTheRun ==
    /\ \A c \in Collaborators : calls[c] <= 1
    /\ \A c \in Collaborators :
          HasRaised(c) =>
             /\ pc = FAILED
             /\ error = Some(Val(returned[c]).raised)
             /\ trace[Len(trace)] = StageOf[c]
             /\ Executed \cap TerminalNodes = {}
             /\ \A f \in FieldsOf[c] : IsNone(state[f])
             /\ IsNone(state.outcome) /\ IsNone(state.response)
    /\ pc = FAILED => \E c \in Collaborators : HasRaised(c)
    /\ IsNone(error) <=> pc # FAILED

\* The run failed in its third stage: the rule table could not be read.
C16_Witness ==
    /\ pc = FAILED
    /\ HasRaised("apply_authorization_rules")
    /\ error = Some("FileNotFoundError")
    /\ trace = <<"lookup_employee_profile", "classify_intent_and_appropriateness",
                 "check_authorization">>
    /\ ~IsNone(state.intent)

\* The employee ids that occur in a users table.
KnownIds(csv) == {csv.rows[i].employee_id : i \in 1..Len(csv.rows)}

\* C17: for every readable users table that does not hold the ticket's
\* employee id, lookup_employee returns None and does not raise; once
\* lookup_employee has returned (a row or None), the node after
\* lookup_employee_profile is classify_intent_and_appropriateness, the
\* profile stored for None is the empty dict, and if the ticket is then
\* classified appropriate the next node is check_authorization.
C17_LookupAlwaysGoesToClassify ==
    /\ \A csv \in UsersCsv :
          (csv.ok /\ state.employee_id \notin KnownIds(csv)) =>
              lookup_employee(csv, state.employee_id) = [value |-> None]
    /\ Answered("lookup_employee") =>
          /\ trace[1] = "lookup_employee_profile"
          /\ Len(trace) = 1 => pc = "classify_intent_and_appropriateness"
          /\ Len(trace) >= 2 => trace[2] = "classify_intent_and_appropriateness"
          /\ IsNone(Answer("lookup_employee").value) =>
                state.employee_profile = Some(EmptyDict)
          /\ ClassifiedAppropriate =>
                /\ Len(trace) = 2 => pc = "check_authorization"
                /\ Len(trace) >= 3 => trace[3] = "check_authorization"

\* The ticket of an unknown employee went through Classify and Authorize.
C17_Witness ==
    /\ args.employee_id = "E404"
    /\ Answered("lookup_employee") /\ IsNone(Answer("lookup_employee").value)
    /\ state.employee_profile = Some(EmptyDict)
    /\ Len(trace) >= 3 /\ trace[3] = "check_authorization"
    /\ Answered("apply_authorization_rules")

SolutionCallFailed(completion) == ~completion.ok \/ IsNone(completion.content)

\* Intents that the classifier can hand to the Resolution Engine.
Intents == Categories \cup {"ambiguous", "printer_issue"}

\* C19: for the ticket of every run that reaches rag_and_llm_answering, for
\* every intent and every way the chat completion call of generate_solution
\* can fail, process_allowed_ticket returns a result (it does not raise)
\* with status escalate and a non-empty message; and a run whose Resolution
\* Engine answered with the text of a failed call ends with outcome escalate.
C19_FailedSolutionCallEscalates ==
    /\ pc = "rag_and_llm_answering" =>
          \A intent \in Intents \cup {Val(state.intent)} :
             \A completion \in SolutionCompletions :
                SolutionCallFailed(completion) =>
                   LET result == process_allowed_ticket(state.employee_id, TicketText(state),
                                                        intent, completion)
                   IN /\ ~IsRaised(result)
                      /\ result.status = "escalate"
                      /\ result.message # ""
    /\ (/\ Answered("process_allowed_ticket")
        /\ Contains(Answer("process_allowed_ticket").message, "Error generating solution: ")) =>
           /\ Answer("process_allowed_ticket").status = "escalate"
           /\ pc \in {"return_escalate", END}
           /\ pc = END => state.outcome = Some("escalate")

\* An allowed access request was escalated with the text of the failed call
\* in the guidance.
C19_Witness ==
    /\ pc = END
    /\ state.intent = Some("access_request")
    /\ ResolutionStatus("escalate")
    /\ Contains(Answer("process_allowed_ticket").message,
                "Error generating solution: Connection error.")
    /\ state.outcome = Some("escalate")

\* The response text of the three blocking terminal nodes, by outcome.
FixedResponse ==
    [blocked_by_appropriateness |->
         "Your request cannot be processed as it is not appropriate for this support channel.",
     blocked_by_auth |-> "You are not authorized to perform this action.",
     needs_approval |-> "Your request requires manager approval before it can be processed."]

\* C20: a run that ends with outcome blocked_by_appropriateness,
\* blocked_by_auth or needs_approval has the one response text of that
\* outcome; and in every reachable state (whatever the ticket text, the
\* classifier's answer and the authorization reason are) each of the three
\* terminal nodes returns the update it returns on the initial state.
C20_BlockingResponsesAreFixed ==
    /\ \A o \in DOMAIN FixedResponse :
          (pc = END /\ state.outcome = Some(o)) => state.response = Some(FixedResponse[o])
    /\ return_blocked_by_appropriateness(state)
          = return_blocked_by_appropriateness(InitialState(args))
    /\ return_blocked_by_auth(state) = return_blocked_by_auth(InitialState(args))
    /\ return_needs_approval(state) = return_needs_approval(InitialState(args))

\* A run was blocked by a rule whose comment differs from the response.
C20_Witness ==
    /\ pc = END
    /\ state.outcome = Some("blocked_by_auth")
    /\ state.auth_reason = Some("Default deny.")
    /\ state.response = Some("You are not authorized to perform this action.")
    /\ args.body = "I need access to the finance database"

\* The fields that each node may write.
NodeFields ==
    [n \in Nodes |->
        CASE n = "lookup_employee_profile" -> {"employee_profile"}
          [] n = "classify_intent_and_appropriateness" -> {"is_appropriate", "intent"}
          [] n = "check_authorization" -> {"auth_decision", "auth_reason"}
          [] n = "rag_and_llm_answering" -> {"rag_context", "rag_answer", "has_good_context"}
          [] n \in TerminalNodes -> {"outcome", "response"}]

\* C21: in every state of a run employee_id, subject and body are the
\* arguments of process_ticket, and every step changes only fields of the
\* node that executed in it (a stage its own output fields, a terminal node
\* outcome and response).
C21_RequestNeverMutated ==
    /\ [](/\ state.employee_id = args.employee_id
          /\ state.subject = args.subject
          /\ state.body = args.body)
    /\ [][/\ Len(trace') = Len(trace) + 1
          /\ \A f \in DOMAIN state :
                state'[f] # state[f] => f \in NodeFields[trace'[Len(trace')]]]_vars

\* A run went through all stages with a non-empty request.
C21_Witness ==
    /\ pc = END
    /\ Len(trace) = 5
    /\ state.subject = "VPN problem" /\ args.subject = "VPN problem"
    /\ state.body = "Keyboard keys stuck"
    /\ state.employee_id = "E404"

\* The collaborator that a stage node calls.
CollaboratorOf ==
    [n \in StageNodes |-> CHOOSE c \in Collaborators : StageOf[c] = n]

\* What a call with arguments a ends with when it runs alone and its
\* collaborators answer as in ret: replayed from node `node` and state st.
RECURSIVE ReplayFrom(_, _, _)
ReplayFrom(node, st, ret) ==
    IF node = END
    THEN [error |-> None, outcome |-> st.outcome, response |-> st.response]
    ELSE IF node \in StageNodes /\ IsNone(ret[CollaboratorOf[node]])
    THEN [error |-> Some("no answer"), outcome |-> None, response |-> None]
    ELSE LET ans == IF node \in StageNodes
                    THEN [c |-> CollaboratorOf[node], result |-> Val(ret[CollaboratorOf[node]])]
                    ELSE [c |-> "none"]
             update == NodeUpdate(node, st, ans)
         IN IF IsRaised(update)
            THEN [error |-> Some(update.raised), outcome |-> st.outcome,
                  response |-> st.response]
            ELSE ReplayFrom(Successor(node, Merge(st, update)), Merge(st, update), ret)

AloneResult(a, ret) == ReplayFrom(Successor(START, InitialState(a)), InitialState(a), ret)

C23_MainInvokesThePipeline ==
    (~IsNone(cli) /\ Val(cli).at \in {"processing", "returned", "exited"}) =>
        /\ ~IsNone(args)
        /\ args.employee_id = Val(cli).employee_id
        /\ args.subject = Val(cli).subject
        /\ args.body = Val(cli).body
        /\ Val(cli).at = "exited" => ~IsNone(Val(cli).shown)

\* C24: for every ticket text that reaches rag_and_llm_answering (each does
\* so in a run classified hardware_issue, where the texts are taken from),
\* every employee id, every intent (also one that is no key of the
\* knowledge base) and everything the chat completion call can do,
\* process_allowed_ticket returns a result whose status is solved_by_rag or
\* escalate and whose message is not empty; so is every result that a run
\* has received.
C24_StatusIsSolvedOrEscalate ==
    /\ (pc = "rag_and_llm_answering" /\ state.intent = Some("hardware_issue")) =>
          \A call \in ({state.employee_id} \X (Intents \cup {Val(state.intent)}))
                       \cup (EmployeeIds \X {Val(state.intent)}),
             completion \in SolutionCompletions :
                LET result == process_allowed_ticket(call[1], TicketText(state),
                                                     call[2], completion)
                IN /\ ~IsRaised(result)
                   /\ result.status \in {"solved_by_rag", "escalate"}
                   /\ result.message # ""
    /\ ~IsNone(returned["process_allowed_ticket"]) =>
          /\ Answered("process_allowed_ticket")
          /\ Answer("process_allowed_ticket").status \in {"solved_by_rag", "escalate"}
          /\ Answer("process_allowed_ticket").message # ""

\* The Resolution Engine was asked about an intent that the knowledge base
\* has no articles for.
C24_Witness ==
    /\ Answered("process_allowed_ticket")
    /\ Val(state.intent) \notin DOMAIN knowledge_base
    /\ Answer("process_allowed_ticket").intent = Val(state.intent)
    /\ Answer("process_allowed_ticket").status = "escalate"
    /\ Answer("process_allowed_ticket").employee_id = "E002"

\* Every ticket text reaches rag_and_llm_answering classified hardware_issue.
C24_TextsCovered ==
    /\ pc = "rag_and_llm_answering"
    /\ state.intent = Some("hardware_issue")
    /\ state.subject = "Access request"
    /\ state.body = "I need access to the finance database"

\* C25: for every ticket text that reaches rag_and_llm_answering (taken from
\* the runs classified hardware_issue) and everything the chat completion
\* call can do, process_allowed_ticket returns status escalate for intent
\* off_scope and for intent access_request; and a run whose Resolution
\* Engine was asked about one of these two intents goes to return_escalate.
C25_OffScopeAndAccessEscalate ==
    /\ (pc = "rag_and_llm_answering" /\ state.intent = Some("hardware_issue")) =>
          \A intent \in {"off_scope", "access_request"}, completion \in SolutionCompletions :
             process_allowed_ticket(state.employee_id, TicketText(state), intent,
                                    completion).status = "escalate"
    /\ (/\ Answered("process_allowed_ticket")
        /\ Answer("process_allowed_ticket").intent \in {"off_scope", "access_request"}) =>
           /\ Answer("process_allowed_ticket").status = "escalate"
           /\ pc \in {"return_escalate", END}
           /\ pc = END => state.outcome = Some("escalate")

\* An access request with a well-matching article and a full generated
\* guidance was escalated all the same.
C25_Witness ==
    /\ Answered("process_allowed_ticket")
    /\ Answer("process_allowed_ticket").intent = "access_request"
    /\ ScoreAtLeast(Answer("process_allowed_ticket").kb_relevance, 1, 4)
    /\ Contains(Answer("process_allowed_ticket").message, "Flush the DNS cache")
    /\ Answer("process_allowed_ticket").status = "escalate"

\* The statuses of the "Possible Final Statuses" table of the Streamlit page.
CopilotStatuses ==
    {"solved_by_rag", "escalate", "blocked_by_auth", "blocked_by_appropriateness",
     "needs_approval", "employee_not_found"}

\* C26: when the copilot's process_ticket has returned, final_status is one
\* of the six listed statuses and final_message is set, whatever employee
\* table and rule table the copilot loaded and whatever the employee id and
\* the ticket text are.
C26_FinalStatusIsOneOfSix ==
    CopilotAt("returned") =>
        LET result == Val(copilot).result
        IN /\ ~IsNone(result.final_status)
           /\ Val(result.final_status) \in CopilotStatuses
           /\ ~IsNone(result.final_message)

\* The text asks a policy question: it contains a policy term and no access,
\* network, hardware or software term.
IsPolicyQuestionText(ticket_lower) ==
    /\ AnyTermIn({"policy", "wfh", "remote", "work from home", "approval", "guideline"},
                 ticket_lower)
    /\ ~AnyTermIn({"access", "permission", "grant", "rights", "privilege", "admin",
                   "restricted", "confidential",
                   "vpn", "network", "wifi", "internet", "connection", "connectivity",
                   "keyboard", "mouse", "monitor", "screen", "hardware", "laptop", "charger",
                   "outlook", "email", "teams", "software", "application", "app", "crash"},
                  ticket_lower)

\* C27: once the ticket of a known employee is classified, a text that asks a
\* policy question (working from home included) has been classified as
\* appropriate with intent policy_question, the run is not blocked by
\* appropriateness, and it goes on to check_authorization.
C27_PolicyQuestionIsAppropriate ==
    (/\ ~IsNone(copilot)
     /\ ~IsNone(Val(copilot).classification)
     /\ IsPolicyQuestionText(Lower(Val(copilot).result.ticket_text))) =>
        LET c == Val(copilot)
        IN /\ Val(c.classification).appropriate
           /\ Val(c.classification).intent = "policy_question"
           /\ c.result.final_status # Some("blocked_by_appropriateness")
           /\ c.at = "check_authorization" \/ ~IsNone(c.auth_result)

RuleApplies(r, intent, role, department) ==
    /\ r.intent = intent \/ r.intent = "*"
    /\ r.role = role \/ r.role = "*"
    /\ r.department = department \/ r.department = "*"

NonWildcardFields(r) == Cardinality({k \in {"intent", "role", "department"} : r[k] # "*"})

\* C29: for the (intent, role, department) of every ticket that reaches
\* check_authorization and every rule table, the rows that
\* apply_authorization_rules keeps are exactly the rows of which each field
\* equals the input or is "*", in file order; and when there is such a row,
\* every result is the outcome and the comment of an applicable row that has
\* the largest number of non-wildcard fields among the applicable rows.
C29_MostSpecificApplicableRuleWins ==
    pc = "check_authorization" =>
        LET a == AuthorizationArgs(state)
        IN \A csv \in AuthRulesCsv :
              csv.ok =>
                 LET Applies(r) == RuleApplies(r, a.intent, a.role, a.department)
                     applying == {i \in 1..Len(csv.rows) : Applies(csv.rows[i])}
                 IN /\ ApplicableRules(csv.rows, a.intent, a.role, a.department)
                          = SelectSeq(csv.rows, Applies)
                    /\ applying # {} =>
                          \A result \in apply_authorization_rules(csv, a.intent, a.role, a.department) :
                             \E i \in applying :
                                /\ \A j \in applying :
                                      NonWildcardFields(csv.rows[j]) <= NonWildcardFields(csv.rows[i])
                                /\ result.auth_status = csv.rows[i].outcome
                                /\ result.reason = csv.rows[i].comment

\* A junior engineer's access request was answered from the rule for junior
\* engineers, which is the only possible answer from a table that lists the
\* rule for everybody first.
C29_Witness ==
    /\ Answered("apply_authorization_rules")
    /\ AuthorizationArgs(state).intent = "access_request"
    /\ AuthorizationArgs(state).role = "junior_engineer"
    /\ Answer("apply_authorization_rules").reason = "Junior engineers may not request access."
    /\ \E csv \in AuthRulesCsv :
          /\ csv.ok /\ Len(csv.rows) = 2
          /\ csv.rows[1].role = "*" /\ csv.rows[1].intent = "access_request"
          /\ csv.rows[2].role = "junior_engineer"
          /\ apply_authorization_rules(csv, "access_request", AuthorizationArgs(state).role,
                                       AuthorizationArgs(state).department)
                = {[auth_status |-> "blocked_by_auth",
                    reason |-> "Junior engineers may not request access."]}

UnknownRequester ==
    /\ ~IsNone(state.employee_profile)
    /\ DOMAIN Val(state.employee_profile) = {}

\* C31: for a requester the directory does not know, check_authorization
\* passes role "" and department "" to the rules; for every rule table the
\* applicable rows then have role "*" and department "*", and when the table
\* has no such row for the ticket's intent the only result is blocked_by_auth
\* and the next node is return_blocked_by_auth.  A finished run of an
\* appropriate ticket of an unknown requester that got the no-rule answer has
\* outcome blocked_by_auth and never ran rag_and_llm_answering.
C31_UnknownRequesterWildcardOnly ==
    /\ (pc = "check_authorization" /\ UnknownRequester) =>
          LET a == AuthorizationArgs(state)
          IN /\ a.role = "" /\ a.department = ""
             /\ \A csv \in AuthRulesCsv :
                   csv.ok =>
                      LET applicable == ApplicableRules(csv.rows, a.intent, a.role, a.department)
                          wildcard_rows == {i \in 1..Len(csv.rows) :
                                               /\ csv.rows[i].role = "*"
                                               /\ csv.rows[i].department = "*"
                                               /\ csv.rows[i].intent \in {a.intent, "*"}}
                      IN /\ \A i \in 1..Len(applicable) :
                               applicable[i].role = "*" /\ applicable[i].department = "*"
                         /\ wildcard_rows = {} =>
                               \A result \in apply_authorization_rules(csv, a.intent, a.role, a.department) :
                                  /\ result.auth_status = "blocked_by_auth"
                                  /\ Successor("check_authorization",
                                               Merge(state, check_authorization(state, result)))
                                        = "return_blocked_by_auth"
    /\ (/\ pc = END
        /\ UnknownRequester
        /\ ClassifiedAppropriate
        /\ Answered("apply_authorization_rules")
        /\ Answer("apply_authorization_rules").reason = "No applicable authorization rule found.") =>
           /\ state.outcome = Some("blocked_by_auth")
           /\ "rag_and_llm_answering" \notin Executed
           /\ calls["process_allowed_ticket"] = 0

\* The appropriate hardware ticket of the unknown E404 ended blocked_by_auth
\* for want of an applicable rule.
C31_Witness ==
    /\ pc = END
    /\ args.employee_id = "E404"
    /\ UnknownRequester
    /\ ClassifiedAppropriate
    /\ state.intent = Some("hardware_issue")
    /\ Answered("apply_authorization_rules")
    /\ Answer("apply_authorization_rules").reason = "No applicable authorization rule found."
    /\ state.outcome = Some("blocked_by_auth")


\* C32: for the ticket text of every run that reaches rag_and_llm_answering
\* (taken from the runs classified hardware_issue), every intent and
\* everything the chat completion call can do, process_allowed_ticket returns
\* solved_by_rag exactly when the intent is neither off_scope nor
\* access_request, the best relevance score is at least 0.25 with a non-empty
\* context, and the generated solution is longer than 50 characters and holds
\* none of the five failure phrases in any letter case; otherwise it returns
\* escalate; and for an intent that is no key of the knowledge base the
\* result is escalate whatever the chat completion call would do.
C32_SolvedIffGoodContextAndSolution ==
    (pc = "rag_and_llm_answering" /\ state.intent = Some("hardware_issue")) =>
        \A intent \in Intents :
           LET found == search_knowledge_base(TicketText(state), intent)
               good_context == ScoreAtLeast(found.score, 1, 4) /\ found.context # ""
           IN /\ \A completion \in SolutionCompletions :
                    LET result == process_allowed_ticket(state.employee_id, TicketText(state),
                                                         intent, completion)
                        solution == generate_solution(completion)
                        good_solution ==
                            /\ Len(solution) > 50
                            /\ \A phrase \in {"don't have", "cannot answer", "insufficient",
                                              "error generating", "not enough information"} :
                                  ~Contains(Lower(solution), phrase)
                    IN /\ result.status = "solved_by_rag" <=>
                             /\ intent \notin {"off_scope", "access_request"}
                             /\ good_context
                             /\ good_solution
                       /\ result.status \in {"solved_by_rag", "escalate"}
              /\ intent \notin DOMAIN knowledge_base =>
                    /\ ~good_context
                    /\ \A c1, c2 \in SolutionCompletions :
                          process_allowed_ticket(state.employee_id, TicketText(state), intent, c1)
                             = process_allowed_ticket(state.employee_id, TicketText(state), intent, c2)

\* The Resolution Engine solved a network ticket: the score reached the
\* threshold and the solution it returned is longer than 50 characters.
C32_Witness ==
    /\ Answered("process_allowed_ticket")
    /\ Answer("process_allowed_ticket").intent = "network_issue"
    /\ Answer("process_allowed_ticket").status = "solved_by_rag"
    /\ ScoreAtLeast(Answer("process_allowed_ticket").kb_relevance, 1, 4)
    /\ Len(Answer("process_allowed_ticket").message) > 50
    /\ Len(trace) >= 4


\* C33: every run ends (END is reached, or a collaborator raised and the run
\* failed); a run fails only when a collaborator raised; no node executes
\* twice, and the nodes executed are at most four stages, in a row, followed
\* at END by exactly one terminal node.
C33_EveryRunTerminates ==
    /\ <>(pc \in {END, FAILED})
    /\ [](pc = FAILED => \E c \in Collaborators : HasRaised(c))
    /\ [](/\ \A i, j \in 1..Len(trace) : trace[i] = trace[j] => i = j
          /\ Cardinality({i \in 1..Len(trace) : trace[i] \in StageNodes}) <= 4
          /\ \A i \in 1..(Len(trace) - 1) : trace[i] \in StageNodes
          /\ pc = END => (Len(trace) >= 2 /\ trace[Len(trace)] \in TerminalNodes))

\* A run in which all four collaborators returned reached END after four
\* stages and return_escalate.
C33_Witness ==
    /\ pc = END
    /\ \A c \in Collaborators : Answered(c)
    /\ Len(trace) = 5
    /\ trace[5] = "return_escalate"


\* C34: in interactive mode the session has ended only because the user
\* entered quit/exit/q or interrupted with the keyboard; a session in which
\* the error of a failed ticket was reported has not ended for that reason.
C34_FailedTicketKeepsSession ==
    (~IsNone(cli) /\ Val(cli).at = "exited") =>
        /\ Val(cli).ended_by \in {Some("quit"), Some("KeyboardInterrupt")}
        /\ IsNone(Val(cli).error_shown)


\* The chat completion call of the classifier failed: it raised, or its
\* message had no content to strip.
ClassifierCallFailed(completion) == ~completion.ok \/ IsNone(completion.content)

\* C35: in every run that reaches the Classify stage, for every way the chat
\* completion call of the classifier can fail, the classifier returns (it
\* does not raise) intent off_scope with is_appropriate true, the node that
\* follows is check_authorization, and the rules are then asked about intent
\* off_scope.  A run whose classifier gave this answer went on to
\* check_authorization and not to return_blocked_by_appropriateness.
C35_FailedClassifierCallIsAppropriate ==
    /\ pc = "classify_intent_and_appropriateness" =>
          \A completion \in ClassifierCompletions :
             ClassifierCallFailed(completion) =>
                LET result == ClassifierClassify(completion)
                    classified == Merge(state, classify_intent_and_appropriateness(state, result))
                IN /\ ~IsRaised(result)
                   /\ result.intent = "off_scope"
                   /\ result.is_appropriate = TRUE
                   /\ Successor("classify_intent_and_appropriateness", classified)
                         = "check_authorization"
                   /\ AuthorizationArgs(classified).intent = "off_scope"
    /\ (/\ Answered("classify_intent_and_appropriateness")
        /\ Answer("classify_intent_and_appropriateness")
              = [intent |-> "off_scope", is_appropriate |-> TRUE]
        /\ Len(trace) >= 2) =>
           /\ "return_blocked_by_appropriateness" \notin Executed
           /\ pc = "check_authorization" \/ (Len(trace) >= 3 /\ trace[3] = "check_authorization")

\* A run whose classifier gave the answer of a failed call was authorized as
\* category off_scope and went on to the Resolve stage.
C35_Witness ==
    /\ Answered("classify_intent_and_appropriateness")
    /\ Answer("classify_intent_and_appropriateness")
          = [intent |-> "off_scope", is_appropriate |-> TRUE]
    /\ state.intent = Some("off_scope")
    /\ Len(trace) >= 4
    /\ trace[3] = "check_authorization"
    /\ trace[4] = "rag_and_llm_answering"


\* C36: a run whose ticket was classified off_scope or access_request never
\* has good context, and when it has ended its outcome is one of
\* blocked_by_appropriateness, blocked_by_auth, needs_approval and escalate,
\* never solved_by_rag.
C36_OffScopeAndAccessNeverSolved ==
    (~IsNone(state.intent) /\ Val(state.intent) \in {"off_scope", "access_request"}) =>
        /\ state.has_good_context # Some(TRUE)
        /\ "return_solved_by_rag" \notin Executed
        /\ pc = END =>
              state.outcome \in {Some("blocked_by_appropriateness"), Some("blocked_by_auth"),
                                 Some("needs_approval"), Some("escalate")}

\* An allowed off_scope ticket went through the Resolution Engine, which
\* answered with guidance, and the run ended with outcome escalate.
C36_Witness ==
    /\ pc = END
    /\ state.intent = Some("off_scope")
    /\ state.auth_decision = Some("allowed")
    /\ Answered("process_allowed_ticket")
    /\ Contains(Answer("process_allowed_ticket").message, "outside IT support scope. ")
    /\ state.outcome = Some("escalate")


\* The employee ids of the rows of an employee table.
CopilotKnownIds(employees_df) == {employees_df[i].employee_id : i \in 1..Len(employees_df)}

\* C37: once the first step of the copilot's process_ticket has run for an
\* employee id that no row of the employee table has (the table may be
\* empty), the run has returned with final_status employee_not_found and the
\* not-found message, lookup_employee is the only method called, and
\* pipeline_steps is empty.
C37_UnknownEmployeeEndsAtOnce ==
    (/\ ~IsNone(copilot)
     /\ Val(copilot).at # "lookup_employee"
     /\ Val(copilot).result.employee_id \notin CopilotKnownIds(Val(copilot).employees_df)) =>
        LET c == Val(copilot)
        IN /\ c.at = "returned"
           /\ c.result.final_status = Some("employee_not_found")
           /\ c.result.final_message =
                 Some("Employee ID " \o c.result.employee_id \o " not found in system.")
           /\ c.executed = <<"lookup_employee">>
           /\ IsNone(c.classification) /\ IsNone(c.auth_result)
           /\ DOMAIN c.result.pipeline_steps = {}

\* E404 was looked for in a table of two employees and not found.
C37_Witness ==
    /\ CopilotAt("returned")
    /\ Val(copilot).result.employee_id = "E404"
    /\ Len(Val(copilot).employees_df) = 2
    /\ Val(copilot).result.final_status = Some("employee_not_found")
    /\ Val(copilot).result.final_message = Some("Employee ID E404 not found in system.")


\* Some row of the copilot's rule table applies to the employee and intent
\* of the run.
CopilotSomeRuleApplies(c) ==
    \E i \in 1..Len(c.auth_rules_df) :
        RuleApplies(c.auth_rules_df[i], Val(c.classification).intent,
                    DictGet(Val(c.employee_profile), "role", ""),
                    DictGet(Val(c.employee_profile), "department", ""))

\* C38: once the copilot's check_authorization has run, an empty rule table
\* has given the decision allowed whatever the intent; a rule table with rows
\* none of which applies to (intent, role, department) has given
\* needs_approval for intent access_request and allowed for every other
\* intent; and search_kb_and_generate has been called only if the decision
\* is allowed.
C38_NoRuleDefaultsAndRagOnlyIfAllowed ==
    (~IsNone(copilot) /\ ~IsNone(Val(copilot).auth_result)) =>
        LET c == Val(copilot)
            intent == Val(c.classification).intent
        IN /\ Len(c.auth_rules_df) = 0 => c.auth_result = Some("allowed")
           /\ (Len(c.auth_rules_df) > 0 /\ ~CopilotSomeRuleApplies(c)) =>
                  c.auth_result = Some(IF intent = "access_request"
                                       THEN "needs_approval" ELSE "allowed")
           /\ (\E i \in 1..Len(c.executed) : c.executed[i] = "search_kb_and_generate") =>
                  c.auth_result = Some("allowed")
           /\ (c.at = "returned" /\ c.auth_result = Some("allowed")) =>
                  c.executed[Len(c.executed)] = "search_kb_and_generate"

\* An access request under a rule table with rows of which none applies was
\* sent for approval without a call of search_kb_and_generate.
C38_Witness ==
    /\ CopilotAt("returned")
    /\ ~IsNone(Val(copilot).auth_result)
    /\ Len(Val(copilot).auth_rules_df) > 0
    /\ ~CopilotSomeRuleApplies(Val(copilot))
    /\ Val(Val(copilot).classification).intent = "access_request"
    /\ Val(copilot).result.final_status = Some("needs_approval")
    /\ Val(copilot).executed = <<"lookup_employee", "classify_intent", "check_authorization">>


\* The outcome of the graph pipeline when its classifier, rules engine and
\* RAG system return what the copilot run c got from classify_intent,
\* check_authorization and search_kb_and_generate: the graph's node updates
\* are merged and its routers followed from the Classify stage on.  When the
\* graph reaches a stage whose counterpart the copilot did not run, there is
\* no common input and the result is "no_common_input".
GraphOutcomeOn(c) ==
    LET TerminalOutcome(node, st) == Val(NodeUpdate(node, st, None).outcome)
        ticket == [employee_id |-> c.result.employee_id, subject |-> "", body |-> c.result.ticket_text]
        st0 == Merge(InitialState(ticket), [employee_profile |-> c.employee_profile])
        cls == Val(c.classification)
        st1 == Merge(st0, classify_intent_and_appropriateness(
                              st0, [is_appropriate |-> cls.appropriate, intent |-> cls.intent]))
        n1 == Successor("classify_intent_and_appropriateness", st1)
        st2 == Merge(st1, check_authorization(
                              st1, [auth_status |-> Val(c.auth_result), reason |-> ""]))
        n2 == Successor("check_authorization", st2)
        rag == c.result.pipeline_steps["rag"]
        st3 == Merge(st2, rag_and_llm_answering(
                              st2, [status |-> rag.status, message |-> rag.message]))
        n3 == Successor("rag_and_llm_answering", st3)
    IN IF n1 \in TerminalNodes THEN TerminalOutcome(n1, st1)
       ELSE IF IsNone(c.auth_result) THEN "no_common_input"
       ELSE IF n2 \in TerminalNodes THEN TerminalOutcome(n2, st2)
       ELSE IF "rag" \notin DOMAIN c.result.pipeline_steps THEN "no_common_input"
       ELSE TerminalOutcome(n3, st3)

\* C39: when the copilot's process_ticket has returned for a known employee
\* and its authorization decision, if one was made, is allowed,
\* needs_approval or blocked_by_auth, its final_status is the outcome the
\* graph pipeline gives for the same classifier result, the same
\* authorization decision and the same resolution status.
C39_PipelinesAgreeOnOutcome ==
    (/\ CopilotAt("returned")
     /\ ~IsNone(Val(copilot).employee_profile)
     /\ Val(copilot).auth_result \in
            {None, Some("allowed"), Some("needs_approval"), Some("blocked_by_auth")}) =>
        Val(copilot).result.final_status = Some(GraphOutcomeOn(Val(copilot)))

\* A run of the copilot for a known employee went through all four steps and
\* ended as the graph does on the same three results; another kind of run
\* is one stopped by the authorization decision needs_approval.
C39_Witness ==
    /\ CopilotAt("returned")
    /\ ~IsNone(Val(copilot).employee_profile)
    /\ Val(copilot).auth_result = Some("allowed")
    /\ Len(Val(copilot).executed) = 4
    /\ Val(copilot).result.final_status = Some("escalate")
    /\ GraphOutcomeOn(Val(copilot)) = "escalate"


\* C40: in a Streamlit session 0 <= solved_count <= processed_count always
\* holds, and for every click on the process button: with every field filled
\* processed_count grows by exactly one and solved_count stays or grows by
\* one, growing only if the final_status of that ticket is solved_by_rag;
\* with a field missing both counters stay as they are.  Nothing but a click
\* changes the session state.
C40_SessionCounters ==
    /\ [](~IsNone(session) =>
             /\ 0 <= Val(session).solved_count
             /\ Val(session).solved_count <= Val(session).processed_count)
    /\ [][(~IsNone(session) /\ ~IsNone(session')) =>
             LET s == Val(session)
                 t == Val(session')
                 clicked == t.clicks = s.clicks + 1
                 filled == StFormIsComplete(Val(t.form).selected_employee,
                                            Val(t.form).ticket_subject,
                                            Val(t.form).ticket_text)
             IN /\ (clicked /\ filled) =>
                       /\ t.processed_count = s.processed_count + 1
                       /\ t.solved_count \in {s.solved_count, s.solved_count + 1}
                       /\ t.solved_count = s.solved_count + 1 =>
                              Val(copilot').result.final_status = Some("solved_by_rag")
                /\ (clicked /\ ~filled) =>
                       /\ t.processed_count = s.processed_count
                       /\ t.solved_count = s.solved_count
                /\ ~clicked => t = s]_vars

\* After two clicks with every field filled one ticket is counted as solved
\* and the other, which was not solved by RAG, only as processed.
C40_Witness ==
    /\ ~IsNone(session)
    /\ Val(session).processed_count = 2
    /\ Val(session).solved_count = 1
    /\ ~IsNone(copilot)
    /\ Val(copilot).at = "returned"
    /\ Val(copilot).result.final_status # Some("solved_by_rag")


=============================================================================
